---- MODULE Spec2Model ----
(***************************************************************************)
(* Model of the send pipeline of bulk_email_sender:                        *)
(*   src/src/pages/api/send.ts  (handler of POST /api/send, lines 154-565) *)
(*   src/src/lib/template.ts    (renderRecipientTemplate)                  *)
(*   src/src/lib/mailer.ts      (sendGmailMessage)                         *)
(*                                                                         *)
(* Text is a sequence of one-character strings.  A nullable column or an   *)
(* optional field is a set holding at most one value ({} is null or        *)
(* undefined).  Every await of the handler is one step of the model: the   *)
(* step is the moment the awaited operation settles, followed by the       *)
(* synchronous code that runs up to the next await.                        *)
(***************************************************************************)
EXTENDS Integers, Sequences, FiniteSets, TLC

\* ------------------------------------------------------------------ bounds

\* Database operations that may throw in one behaviour.
MaxDbFailures == 2
\* File system operations (readFile, unlink) that may fail in one request.
MaxFsFailures == 2
\* Files of a request whose file system operations may fail: failures are
\* followed for the uploads of up to this many files.
MaxFailingFiles == 4
\* Length of the long transport error message (one more than the slice).
LongErrLen == 1001
\* Requests the recipients route answers in one behaviour.
MaxAdds == 3

\* The handler invocations: two, the least number whose awaits interleave.
Reqs == {1, 2}

\* --------------------------------------------------------- program constants

\* sendSchema: subject max
SUBJECT_MAX == 300
\* sendSchema: bodyText max
BODY_TEXT_MAX == 20000
\* sendSchema: bodyHtml max
BODY_HTML_MAX == 120000
\* message.slice(0, 1000)
ERROR_SLICE == 1000
\* attachments of one request: files, bytes in all, bytes of one file
MAX_ATTACHMENT_COUNT == 10
MAX_ATTACHMENT_TOTAL_BYTES == 20 * 1024 * 1024
MAX_ATTACHMENT_FILE_BYTES == 10 * 1024 * 1024
\* recipientSchema: firstName and name max
NAME_MAX == 120

\* --------------------------------------------------------------------- text

\* A text is a tuple with one element per UTF-16 code unit.  A character of
\* ASCII is written as itself; a character outside ASCII is written as the
\* name of its code point, so that it is the same text wherever the module is
\* read.
\* U+000B, the vertical tab
VT == ""
\* U+00A0, the no-break space
NBSP == "U+00A0"
\* U+FEFF, the byte order mark
BOM == "U+FEFF"
\* The space separators of Unicode outside ASCII, and the line and paragraph
\* separators
SpaceSeparators ==
    { NBSP, "U+1680", "U+2000", "U+2001", "U+2002", "U+2003", "U+2004", "U+2005",
      "U+2006", "U+2007", "U+2008", "U+2009", "U+200A", "U+202F", "U+205F", "U+3000" }
LineSeparators == { "U+2028", "U+2029" }

\* The white space String.prototype.trim strips: the WhiteSpace and
\* LineTerminator characters of ECMAScript.
Whitespace ==
    {" ", "\n", "\t", "\r", "\f", VT, BOM} \cup SpaceSeparators \cup LineSeparators

RECURSIVE TrimStart(_)
TrimStart(s) ==
    IF s # <<>> /\ Head(s) \in Whitespace THEN TrimStart(Tail(s)) ELSE s

RECURSIVE TrimEnd(_)
TrimEnd(s) ==
    IF s # <<>> /\ s[Len(s)] \in Whitespace
    THEN TrimEnd(SubSeq(s, 1, Len(s) - 1))
    ELSE s

UpperCase == <<"A", "B", "C", "D", "E", "F", "G", "H", "I", "J", "K", "L", "M", "N", "O", "P", "Q", "R", "S", "T", "U", "V", "W", "X", "Y", "Z">>
LowerCase == <<"a", "b", "c", "d", "e", "f", "g", "h", "i", "j", "k", "l", "m", "n", "o", "p", "q", "r", "s", "t", "u", "v", "w", "x", "y", "z">>
AsciiLetters == {UpperCase[i] : i \in 1..Len(UpperCase)} \cup {LowerCase[i] : i \in 1..Len(LowerCase)}
Digits == {"0", "1", "2", "3", "4", "5", "6", "7", "8", "9"}

\* value.toLowerCase(), on the letters of ASCII
toLowerCase(s) ==
    [i \in 1..Len(s) |->
        IF \E k \in 1..Len(UpperCase) : UpperCase[k] = s[i]
        THEN LowerCase[CHOOSE k \in 1..Len(UpperCase) : UpperCase[k] = s[i]]
        ELSE s[i]]

\* String.prototype.trim
Trim(s) == TrimEnd(TrimStart(s))

\* String.prototype.slice(0, n)
Slice(s, n) == SubSeq(s, 1, IF Len(s) < n THEN Len(s) ELSE n)

IsPrefix(p, s) == Len(p) <= Len(s) /\ SubSeq(s, 1, Len(p)) = p

\* s.startsWith(pat) at position i (1-based)
MatchAt(s, pat, i) ==
    /\ i + Len(pat) - 1 <= Len(s)
    /\ SubSeq(s, i, i + Len(pat) - 1) = pat

\* The grave accent U+0060; the apostrophe U+0027
GRAVE == SubSeq("`'", 1, 1)
APOSTROPHE == "'"

\* GetSubstitution of a replacement string for a string pattern (no capture
\* groups): $$ is a dollar sign, $& the match, $ with a grave accent the text
\* before the match, $ with an apostrophe the text after it; any other $
\* stands for itself.
RECURSIVE Substitution(_, _, _, _, _)
Substitution(rep, i, matched, before, after) ==
    IF i > Len(rep) THEN <<>>
    ELSE IF rep[i] = "$" /\ i < Len(rep)
            /\ rep[i + 1] \in {"$", "&", GRAVE, APOSTROPHE}
         THEN (CASE rep[i + 1] = "$" -> <<"$">>
                 [] rep[i + 1] = "&" -> matched
                 [] rep[i + 1] = GRAVE -> before
                 [] rep[i + 1] = APOSTROPHE -> after)
              \o Substitution(rep, i + 2, matched, before, after)
         ELSE <<rep[i]>> \o Substitution(rep, i + 1, matched, before, after)

RECURSIVE ReplaceFrom(_, _, _, _)
ReplaceFrom(s, pat, rep, i) ==
    IF i > Len(s) THEN <<>>
    ELSE IF MatchAt(s, pat, i)
         THEN Substitution(rep, 1, pat, SubSeq(s, 1, i - 1),
                           SubSeq(s, i + Len(pat), Len(s)))
              \o ReplaceFrom(s, pat, rep, i + Len(pat))
         ELSE <<s[i]>> \o ReplaceFrom(s, pat, rep, i + 1)

\* String.prototype.replaceAll(pat, rep) for a non-empty string pattern: the
\* matches are found left to right in s, without overlap, and the text put in
\* is not searched again.
\* (The arguments are bound to their values first, so that nested calls are
\* evaluated once.)
ReplaceAll(s, pat, rep) ==
    CHOOSE out \in {ReplaceFrom(text, pat, with, 1) : text \in {s}, with \in {rep}} : TRUE

PH_EMAIL == <<"{", "{", "e", "m", "a", "i", "l", "}", "}">>
PH_FIRSTNAME == <<"{", "{", "f", "i", "r", "s", "t", "N", "a", "m", "e", "}", "}">>
PH_NAME == <<"{", "{", "n", "a", "m", "e", "}", "}">>

\* recipient.name?.trim() || recipient.email   (name is {} when null)
FirstNameOf(recipient) ==
    IF recipient.name # {} /\ Trim(CHOOSE n \in recipient.name : TRUE) # <<>>
    THEN Trim(CHOOSE n \in recipient.name : TRUE)
    ELSE recipient.email

renderRecipientTemplate(template, recipient) ==
    ReplaceAll(
        ReplaceAll(
            ReplaceAll(template, PH_EMAIL, recipient.email),
            PH_FIRSTNAME, FirstNameOf(recipient)),
        PH_NAME, FirstNameOf(recipient))

\* ----------------------------------------------------------------- messages

MSG_INVALID == <<"I", "n", "v", "a", "l", "i", "d", " ", "s", "e", "n", "d", " ", "r", "e", "q", "u", "e", "s", "t", ".">>
MSG_NO_ACTIVE == <<"N", "o", " ", "a", "c", "t", "i", "v", "e", " ", "r", "e", "c", "i", "p", "i", "e", "n", "t", "s", " ", "s", "e", "l", "e", "c", "t", "e", "d", ".">>
MSG_METHOD == <<"M", "e", "t", "h", "o", "d", " ", "n", "o", "t", " ", "a", "l", "l", "o", "w", "e", "d">>
MSG_UNKNOWN == <<"U", "n", "k", "n", "o", "w", "n", " ", "e", "r", "r", "o", "r", " ", "w", "h", "i", "l", "e", " ", "s", "e", "n", "d", "i", "n", "g">>

MSG_UNEXPECTED == <<"U", "n", "e", "x", "p", "e", "c", "t", "e", "d", " ", "s", "e", "r", "v", "e", "r", " ", "e", "r", "r", "o", "r", ".">>

\* A thrown value: an Error with a message, or something that is no Error.
ErrorOf(msg) == [isError |-> TRUE, message |-> msg]

\* error instanceof Error ? error.message : "Unknown error while sending"
CaughtMessage(error) == IF error.isError THEN error.message ELSE MSG_UNKNOWN
\* error instanceof Error ? error.message : "Invalid send request."
InvalidMessage(error) == IF error.isError THEN error.message ELSE MSG_INVALID
\* error instanceof Error ? error.message : "Unexpected server error."
UnexpectedMessage(error) == IF error.isError THEN error.message ELSE MSG_UNEXPECTED

\* What the mail transport rejects with: a short message and one longer than
\* the slice kept in the ledger.
ShortTransportError == <<"E", "A", "U", "T", "H">>
LongTransportError == [i \in 1..LongErrLen |-> IF i % 2 = 1 THEN "x" ELSE "y"]
\* The A records dns.resolve4 may return for smtp.gmail.com.
IP_ONE == <<"1", "4", "2", ".", "2", "5", "0", ".", "0", ".", "1", "0", "8">>
IP_TWO == <<"1", "4", "2", ".", "2", "5", "0", ".", "0", ".", "1", "0", "9">>
\* port: 587 of createTransport, and the port getSocket falls back to
SMTP_PORT == 587

\* A number in a template literal: its decimal digits.
DecimalDigits == <<"0", "1", "2", "3", "4", "5", "6", "7", "8", "9">>
RECURSIVE NumberText(_)
NumberText(n) ==
    IF n < 10 THEN <<DecimalDigits[n + 1]>>
    ELSE NumberText(n \div 10) \o <<DecimalDigits[(n % 10) + 1]>>

MSG_TIMEOUT == <<"S", "M", "T", "P", " ", "I", "P", "v", "4", " ", "c", "o", "n", "n", "e", "c", "t", "i", "o", "n", " ", "t", "i", "m", "e", "o", "u", "t", " ", "t", "o", " ", "s", "m", "t", "p", ".", "g", "m", "a", "i", "l", ".", "c", "o", "m">>
\* The error of getSocket's timeout handler: the connection to targetIp and
\* port did not open within connectionTimeout.
TimeoutError(targetIp, port) ==
    ErrorOf(MSG_TIMEOUT \o <<" ", "(">> \o targetIp \o <<":">> \o NumberText(port) \o <<")">>)
\* The timeout errors of the transport, whose port is 587.
TimeoutErrors == {TimeoutError(targetIp, SMTP_PORT) : targetIp \in {IP_ONE, IP_TWO}}
TransportErrors ==
    {ErrorOf(ShortTransportError), ErrorOf(LongTransportError), TimeoutError(IP_ONE, SMTP_PORT)}

\* What a failed database operation throws.
DbError == ErrorOf(<<"P", "1", "0", "0", "1">>)
\* What JSON.parse throws on a malformed body.
JsonError == ErrorOf(<<"S", "y", "n", "t", "a", "x">>)
\* The provider's message id of an accepted message.
MessageId == <<"<", "m", ">">>

\* ------------------------------------------------------------ request input

\* The content-type header of a request.
CT_JSON == <<"a", "p", "p", "l", "i", "c", "a", "t", "i", "o", "n", "/", "j", "s", "o", "n">>
CT_MULTIPART == <<"m", "u", "l", "t", "i", "p", "a", "r", "t", "/", "f", "o", "r", "m", "-", "d", "a", "t", "a", ";", " ", "b", "o", "u", "n", "d", "a", "r", "y", "=", "x">>
\* contentType.includes("multipart/form-data")
IsMultipart(contentType) ==
    \E i \in 1..Len(contentType) :
        MatchAt(contentType, <<"m", "u", "l", "t", "i", "p", "a", "r", "t", "/", "f", "o", "r", "m", "-", "d", "a", "t", "a">>, i)

\* A JSON value of the request body, as far as sendSchema tells values apart.
Undef == [t |-> "undefined", v |-> <<>>]
Str(s) == [t |-> "string", v |-> s]
Num == [t |-> "number", v |-> <<>>]
\* recipientIds: an array of strings (ids are opaque; "" is the empty id).
Arr(ids) == [t |-> "array", v |-> ids]

\* Mutant: the upper limit is exclusive.
ValidTrimmedStringBelow(x, max) ==
    /\ x.t = "string"
    /\ Len(Trim(x.v)) >= 1
    /\ Len(Trim(x.v)) < max

\* z.string().trim().min(1).max(n): the parsed value is the trimmed string.
ValidTrimmedString(x, max) ==
    /\ x.t = "string"
    /\ Len(Trim(x.v)) >= 1
    /\ Len(Trim(x.v)) <= max

\* z.string().max(n).optional()
ValidOptionalString(x, max) ==
    \/ x.t = "undefined"
    \/ x.t = "string" /\ Len(x.v) <= max

\* Mutant: the array's .min(1) is dropped.
ValidRecipientIdsAllowEmpty(x) ==
    /\ x.t = "array"
    /\ \A i \in 1..Len(x.v) : x.v[i] # ""

\* z.array(z.string().min(1)).min(1)
ValidRecipientIds(x) ==
    /\ x.t = "array"
    /\ Len(x.v) >= 1
    /\ \A i \in 1..Len(x.v) : x.v[i] # ""

\* sendSchema.safeParse(...).success
sendSchemaSuccess(o) ==
    /\ ValidTrimmedString(o.subject, SUBJECT_MAX)
    /\ ValidTrimmedString(o.bodyText, BODY_TEXT_MAX)
    /\ ValidOptionalString(o.bodyHtml, BODY_HTML_MAX)
    /\ ValidRecipientIds(o.recipientIds)

\* sendSchema.safeParse(...).data
sendSchemaData(o) ==
    [subject |-> Trim(o.subject.v),
     bodyText |-> Trim(o.bodyText.v),
     bodyHtml |-> IF o.bodyHtml.t = "string" THEN {o.bodyHtml.v} ELSE {},
     recipientIds |-> o.recipientIds.v]

\* rawBody.bodyText ?? rawBody.body
Coalesce(x, y) == IF x.t = "undefined" THEN y ELSE x

\* { ...parsed.data, attachments }
PreparedSendPayload(data, attachments) ==
    [subject |-> data.subject, bodyText |-> data.bodyText, bodyHtml |-> data.bodyHtml,
     recipientIds |-> data.recipientIds, attachments |-> attachments]

NoPayload ==
    [subject |-> <<>>, bodyText |-> <<>>, bodyHtml |-> {}, recipientIds |-> <<>>,
     attachments |-> <<>>]

\* parseSendRequest on a JSON request: the payload, or the error it throws.
parseSendRequest(req) ==
    IF ~req.jsonOk
    THEN [ok |-> FALSE, data |-> NoPayload, error |-> JsonError]
    ELSE LET o == [subject |-> req.body.subject,
                   bodyText |-> Coalesce(req.body.bodyText, req.body.body),
                   bodyHtml |-> req.body.bodyHtml,
                   recipientIds |-> req.body.recipientIds]
         IN IF sendSchemaSuccess(o)
            THEN [ok |-> TRUE, data |-> PreparedSendPayload(sendSchemaData(o), <<>>),
                  error |-> ErrorOf(<<>>)]
            ELSE [ok |-> FALSE, data |-> NoPayload, error |-> ErrorOf(MSG_INVALID)]

\* -------------------------------------------------------------------- state

VARIABLES
    recipients,   \* the Recipient table: a set of rows
    campaigns,    \* the Campaign table: rows in insertion order
    deliveries,   \* the Delivery table: rows in insertion order
    calls,        \* the sendGmailMessage calls made, in the order they started
    clock,        \* the wall clock read by new Date()
    dbFailures,   \* database operations that have thrown so far
    pc,           \* per invocation: the await the handler is suspended at
    input,        \* per invocation: the request it was given
    payload,      \* per invocation: requestPayload
    resolved,     \* per invocation: recipients (the findMany result)
    idx,          \* per invocation: position of the loop in recipients
    campaign,     \* per invocation: campaign.id, once created
    results,      \* per invocation: results
    pending,      \* per invocation: what the awaited delivery.create writes
    response,     \* per invocation: the response sent, if any
    log,          \* per invocation: the operations it awaited, in order (history)
    content,      \* per invocation: sanitizedMainBodyHtml
    tempFiles,    \* the temporary files of the multipart parser that are on disk
    upload,       \* per invocation: how far the try block of a multipart request is
    rendering,    \* renderRecipientTemplate on its own: arguments and result
    adds,         \* requests the recipients route has answered
    addResponse,  \* the last response of the recipients route, if any
    env,          \* process.env: the names of the variables that are set
    socket        \* per connection attempt: the state of getSocket

\* What the send handler neither reads nor writes.
otherRoutes == <<rendering, adds, addResponse>>
\* The mailer's configuration and its socket factory: the send handler writes
\* neither.
mailer == <<env, socket>>

vars == <<recipients, campaigns, deliveries, calls, clock, dbFailures, pc, input,
          payload, resolved, idx, campaign, results, pending, response, log,
          content, tempFiles, upload, rendering, adds, addResponse, env, socket>>

\* The Recipient table the sends run against.  "a" is inactive; "c" was
\* created before "b"; "c" has no name; "z" is the id of no row.
Eml(c) == <<c, "@", "x">>
InitialRecipients ==
    { [id |-> "a", email |-> Eml("a"), name |-> {<<"A", "l">>}, active |-> FALSE, createdAt |-> 1],
      [id |-> "b", email |-> Eml("b"), name |-> {<<" ", "B", "o">>}, active |-> TRUE, createdAt |-> 3],
      [id |-> "c", email |-> Eml("c"), name |-> {}, active |-> TRUE, createdAt |-> 2] }

SubjectText == <<" ", "{", "{", "n", "a", "m", "e", "}", "}", "!", " ">>
BodyText == <<"B", "\n">>

ValidBody(ids) ==
    [subject |-> Str(SubjectText), bodyText |-> Str(BodyText), body |-> Undef,
     bodyHtml |-> Undef, recipientIds |-> Arr(ids)]

\* Request bodies: accepted ones, and ones sendSchema rejects.
Bodies ==
    { ValidBody(<<"b", "c">>),
      ValidBody(<<"a", "a", "b">>),
      ValidBody(<<"a">>),
      ValidBody(<<"z", "a">>),
      [ValidBody(<<"c">>) EXCEPT !.bodyText = Undef, !.body = Str(BodyText)],
      ValidBody(<<>>),
      ValidBody(<<"b", "">>),
      [ValidBody(<<"b">>) EXCEPT !.recipientIds = Undef],
      [ValidBody(<<"b">>) EXCEPT !.subject = Str(<<" ", "\f", "\n", VT, NBSP, BOM, "U+2003">>)],
      [ValidBody(<<"b">>) EXCEPT !.bodyText = Undef],
      [ValidBody(<<"b">>) EXCEPT !.bodyHtml = Num] }

\* A request with a JSON body: no file parts.
JsonRequest(method, jsonOk, body) ==
    [method |-> method, contentType |-> CT_JSON, jsonOk |-> jsonOk, body |-> body,
     files |-> <<>>, aborted |-> FALSE]

Inputs ==
    { JsonRequest("POST", TRUE, body) : body \in Bodies }
    \cup { JsonRequest("GET", TRUE, ValidBody(<<"b", "c">>)),
           JsonRequest("POST", FALSE, ValidBody(<<"b">>)) }

NoInput ==
    [method |-> "", contentType |-> <<>>, jsonOk |-> FALSE,
     body |-> [subject |-> Undef, bodyText |-> Undef, body |-> Undef,
               bodyHtml |-> Undef, recipientIds |-> Undef],
     files |-> <<>>, aborted |-> FALSE]
NoContent == [html |-> <<>>]
NoRendering == [tokens |-> <<>>, template |-> <<>>, recipient |-> {}, out |-> {}, again |-> {}]
\* The variables getGmailTransporter and sendGmailMessage require.
FullEnv == {"GMAIL_USER", "GMAIL_APP_PASSWORD"}
\* The connection attempts of getSocket that are followed.
Attempts == {1, 2}
\* getSocket has not been called.
NoSocket ==
    [phase |-> "idle", options |-> [port |-> {}], addresses |-> <<>>, target |-> {},
     port |-> {}, opened |-> 0, settled |-> FALSE,
     destroyed |-> FALSE, fired |-> {}, callbacks |-> <<>>]
NoSockets == [a \in Attempts |-> NoSocket]
\* No readFile and no unlink of the invocation is under way.
NoUpload == [phase |-> "none", read |-> 0, unlinking |-> {}, thrown |-> {}]
NoPending == [status |-> "", providerMessageId |-> {}, sentAt |-> {}, message |-> <<>>]

\* No request has reached the send handler.
InitHandler ==
    /\ campaigns = <<>>
    /\ deliveries = <<>>
    /\ calls = <<>>
    /\ clock = 1
    /\ dbFailures = 0
    /\ pc = [r \in Reqs |-> "idle"]
    /\ input = [r \in Reqs |-> NoInput]
    /\ payload = [r \in Reqs |-> NoPayload]
    /\ resolved = [r \in Reqs |-> <<>>]
    /\ idx = [r \in Reqs |-> 0]
    /\ campaign = [r \in Reqs |-> {}]
    /\ results = [r \in Reqs |-> <<>>]
    /\ pending = [r \in Reqs |-> NoPending]
    /\ response = [r \in Reqs |-> {}]
    /\ log = [r \in Reqs |-> <<>>]
    /\ content = [r \in Reqs |-> NoContent]
    /\ tempFiles = {}
    /\ upload = [r \in Reqs |-> NoUpload]

Init ==
    /\ recipients = InitialRecipients
    /\ InitHandler
    /\ rendering = NoRendering
    /\ adds = 0
    /\ addResponse = {}
    /\ env = FullEnv
    /\ socket = NoSockets

\* ---------------------------------------------------------------- responses

\* res.status(code).json({ error })
ErrorResponse(code, allow, msg) ==
    [status |-> code, allow |-> allow, error |-> {msg}, campaignId |-> {},
     sentCount |-> 0, failedCount |-> 0, total |-> 0, results |-> <<>>]

\* results.filter((result) => result.status === "SENT").length
RECURSIVE CountSent(_)
CountSent(res) ==
    IF res = <<>> THEN 0
    ELSE (IF Head(res).status = "SENT" THEN 1 ELSE 0) + CountSent(Tail(res))

\* Mutant: the 200 response lists the recipients that were sent to only.
OkResponseSentOnly(cid, res) ==
    [status |-> 200, allow |-> {}, error |-> {}, campaignId |-> {cid},
     sentCount |-> CountSent(res), failedCount |-> Len(res) - CountSent(res),
     total |-> Len(res), results |-> SelectSeq(res, LAMBDA entry : entry.status = "SENT")]

\* The 200 response of a completed batch.
OkResponse(cid, res) ==
    [status |-> 200, allow |-> {}, error |-> {}, campaignId |-> {cid},
     sentCount |-> CountSent(res), failedCount |-> Len(res) - CountSent(res),
     total |-> Len(res), results |-> res]

\* The outer catch: res.status(500).json({ error: error.message })
UnexpectedResponse(error) ==
    ErrorResponse(500, {}, UnexpectedMessage(error))

\* ------------------------------------------------------- recipient resolver

\* Array.from(new Set(ids)): first occurrences, in order.
RECURSIVE UniqueIds(_)
UniqueIds(ids) ==
    IF ids = <<>> THEN <<>>
    ELSE LET init == UniqueIds(SubSeq(ids, 1, Len(ids) - 1))
             last == ids[Len(ids)]
         IN IF \E i \in 1..Len(init) : init[i] = last THEN init
            ELSE Append(init, last)

\* Mutant: the where clause has lost active: true.
MatchingRowsAnyState(table, ids) ==
    { row \in table : \E i \in 1..Len(ids) : ids[i] = row.id }

\* where: { id: { in: ids }, active: true }
MatchingRows(table, ids) ==
    { row \in table : row.active /\ \E i \in 1..Len(ids) : ids[i] = row.id }

\* orderBy: { createdAt: "asc" }: the orders the database may return the rows
\* in. Rows with the same createdAt have no order among themselves.
RECURSIVE OrderByCreatedAt(_)
OrderByCreatedAt(rows) ==
    IF rows = {} THEN {<<>>}
    ELSE UNION { { <<first>> \o rest : rest \in OrderByCreatedAt(rows \ {first}) } :
                 first \in { row \in rows :
                                \A other \in rows : row.createdAt <= other.createdAt } }

\* prisma.recipient.findMany of the handler: the lists it may return
FindActiveRecipients(table, ids) == OrderByCreatedAt(MatchingRows(table, ids))

\* ------------------------------------------------------------------ content

\* escapeHtml of mailer.ts: & < > " ' in that order.
escapeHtml(value) ==
    ReplaceAll(ReplaceAll(ReplaceAll(ReplaceAll(ReplaceAll(value,
        <<"&">>, <<"&", "a", "m", "p", ";">>), <<"<">>, <<"&", "l", "t", ";">>), <<">">>, <<"&", "g", "t", ";">>),
        <<"\"">>, <<"&", "q", "u", "o", "t", ";">>), <<"'">>, <<"&", "#", "3", "9", ";">>)

\* HTML_SANITIZE_CONFIG.allowedTags
AllowedTags ==
    { <<"p">>,
      <<"b", "r">>,
      <<"d", "i", "v">>,
      <<"s", "p", "a", "n">>,
      <<"s", "t", "r", "o", "n", "g">>,
      <<"b">>,
      <<"e", "m">>,
      <<"i">>,
      <<"u">>,
      <<"a">>,
      <<"u", "l">>,
      <<"o", "l">>,
      <<"l", "i">>,
      <<"b", "l", "o", "c", "k", "q", "u", "o", "t", "e">>,
      <<"c", "o", "d", "e">> }
\* HTML_SANITIZE_CONFIG.allowedAttributes: the attributes kept on a tag
AllowedAttributes(name) ==
    IF name = <<"a">>
    THEN { <<"h", "r", "e", "f">>, <<"t", "a", "r", "g", "e", "t">>, <<"r", "e", "l">> }
    ELSE IF name \in { <<"s", "p", "a", "n">>, <<"p">>, <<"d", "i", "v">> }
         THEN { <<"s", "t", "y", "l", "e">> }
         ELSE {}
\* HTML_SANITIZE_CONFIG.allowedSchemes
AllowedSchemes == { <<"h", "t", "t", "p">>, <<"h", "t", "t", "p", "s">>, <<"m", "a", "i", "l", "t", "o">> }
\* HTML_SANITIZE_CONFIG.allowedStyles["*"]: the values each property may have
\* (underline; italic; bold or 500 to 900)
AllowedStyles ==
    [p \in { <<"t", "e", "x", "t", "-", "d", "e", "c", "o", "r", "a", "t", "i", "o", "n">>, <<"f", "o", "n", "t", "-", "s", "t", "y", "l", "e">>, <<"f", "o", "n", "t", "-", "w", "e", "i", "g", "h", "t">> } |->
        IF p = <<"t", "e", "x", "t", "-", "d", "e", "c", "o", "r", "a", "t", "i", "o", "n">> THEN { <<"u", "n", "d", "e", "r", "l", "i", "n", "e">> }
        ELSE IF p = <<"f", "o", "n", "t", "-", "s", "t", "y", "l", "e">> THEN { <<"i", "t", "a", "l", "i", "c">> }
        ELSE { <<"b", "o", "l", "d">> } \cup { <<d, "0", "0">> : d \in {"5", "6", "7", "8", "9"} }]

\* The tags sanitize-html drops together with what they enclose.
NonTextTags == { <<"s", "c", "r", "i", "p", "t">>, <<"s", "t", "y", "l", "e">>, <<"t", "e", "x", "t", "a", "r", "e", "a">>, <<"o", "p", "t", "i", "o", "n">> }
\* The elements without content; sanitize-html writes the allowed one, br,
\* as a self-closing tag.
VoidElements ==
    { <<"b", "r">>, <<"i", "m", "g">>, <<"h", "r">>, <<"i", "n", "p", "u", "t">>,
      <<"l", "i", "n", "k">>, <<"m", "e", "t", "a">>, <<"a", "r", "e", "a">>,
      <<"b", "a", "s", "e">>, <<"c", "o", "l">>, <<"e", "m", "b", "e", "d">>,
      <<"w", "b", "r">> }
\* The open elements a start tag closes when they are innermost: a list item
\* ends a list item, a block ends a paragraph.
OpenImpliesClose(name) ==
    IF name = <<"l", "i">> THEN { <<"l", "i">> }
    ELSE IF name \in { <<"p">>, <<"d", "i", "v">>, <<"u", "l">>, <<"o", "l">>,
                       <<"b", "l", "o", "c", "k", "q", "u", "o", "t", "e">> }
         THEN { <<"p">> }
         ELSE {}
\* The white space of HTML and of CSS
HtmlSpace == {" ", "\n", "\t", "\f", "\r"}

\* The least element of a non-empty set of positions.
First(positions) == CHOOSE k \in positions : \A m \in positions : k <= m

\* The least of a set of positions, 0 if there is none.
Least(positions) == IF positions = {} THEN 0 ELSE First(positions)

\* Position i of s opens a tag: "<" and a letter, or "</" and a letter.
OpensTag(s, i) ==
    /\ s[i] = "<"
    /\ \/ i + 1 <= Len(s) /\ s[i + 1] \in AsciiLetters
       \/ i + 2 <= Len(s) /\ s[i + 1] = "/" /\ s[i + 2] \in AsciiLetters
\* Where the name of the tag that opens at position i starts, and the position
\* after its last character.
NameStart(s, i) == IF s[i + 1] = "/" THEN i + 2 ELSE i + 1
NameEnd(s, i) ==
    Least({k \in NameStart(s, i)..(Len(s) + 1) :
              k = Len(s) + 1 \/ s[k] \in HtmlSpace \cup {"/", ">"}})

\* An attribute as the parser hands it over: the name in lower case.
Attrib(name, value) == [name |-> toLowerCase(name), value |-> value]

\* The least position from k on whose character is in chars, 0 if there is
\* none; and the least whose character is not.
Next_(s, k, chars) == Least({m \in k..Len(s) : s[m] \in chars})
NextNot(s, k, chars) == Least({m \in k..Len(s) : s[m] \notin chars})

\* The parser inside a start tag, from position k on, where an attribute may
\* begin: attribute names, and values in double quotes, in single quotes or
\* without quotes.  end is the position of the ">" that ends the tag, 0 when
\* the text ends first.
RECURSIVE TagScan(_, _, _)
TagScan(s, k, attribs) ==
    LET nothing == [end |-> 0, attribs |-> <<>>]
        \* a value in quotes ends at the next quote
        quoted(name, value, quote) ==
            IF quote = 0 THEN nothing
            ELSE TagScan(s, quote + 1,
                         Append(attribs, Attrib(name, SubSeq(s, value + 1, quote - 1))))
        \* a value without quotes ends at white space or at the end of the tag
        bare(name, value, stop) ==
            IF stop = 0 THEN nothing
            ELSE TagScan(s, stop, Append(attribs, Attrib(name, SubSeq(s, value, stop - 1))))
        valued(name, value) ==
            IF value = 0 THEN nothing
            ELSE IF s[value] \in {"\"", APOSTROPHE}
                 THEN quoted(name, value, Next_(s, value + 1, {s[value]}))
                 ELSE bare(name, value, Next_(s, value, HtmlSpace \cup {">"}))
        \* sign is where the "=" of the attribute stands, if it has one
        signed(name, stop, sign) ==
            IF sign = 0 THEN nothing
            ELSE IF s[sign] # "=" THEN TagScan(s, stop, Append(attribs, Attrib(name, <<>>)))
            ELSE valued(name, NextNot(s, sign + 1, HtmlSpace))
        \* the name of the attribute runs from start to stop - 1
        named(start, stop) ==
            IF stop = 0 THEN nothing
            ELSE signed(SubSeq(s, start, stop - 1), stop, NextNot(s, stop, HtmlSpace))
        from(start) ==
            IF start = 0 THEN nothing
            ELSE IF s[start] = ">" THEN [end |-> start, attribs |-> attribs]
            ELSE named(start, Next_(s, start + 1, HtmlSpace \cup {"=", ">", "/"}))
    IN from(NextNot(s, k, HtmlSpace \cup {"/"}))

\* The tag that opens at position i of s, as the parser reads it: an end tag
\* runs to the next ">".
ParsedTag(s, i) ==
    IF s[i + 1] = "/"
    THEN [end |-> Next_(s, NameEnd(s, i), {">"}), attribs |-> <<>>]
    ELSE TagScan(s, NameEnd(s, i), <<>>)

\* The position of the ">" that ends the tag opening at position i of s, 0 if
\* there is none.
TagEnd(s, i) == ParsedTag(s, i).end
\* The name of the tag that starts at position i of s and ends at j, in lower
\* case.
TagName(s, i, j) == toLowerCase(SubSeq(s, NameStart(s, i), NameEnd(s, i) - 1))
\* The attributes of the start tag at position i of s; of two attributes with
\* one name the first counts.
TagAttribs(s, i) ==
    LET marked(all) ==
            [n \in 1..Len(all) |->
                [name |-> all[n].name, value |-> all[n].value,
                 first |-> \A m \in 1..(n - 1) : all[m].name # all[n].name]]
    IN marked(ParsedTag(s, i).attribs)
\* Position i of s starts a tag that has an end.
IsTagAt(s, i) == OpensTag(s, i) /\ TagEnd(s, i) # 0
\* The position after the closing tag of name that follows position j of s,
\* or after the end of s.
AfterClosing(s, j, name) ==
    LET after(close, lower) ==
            First({k + Len(close) : k \in {k \in (j + 1)..Len(s) : MatchAt(lower, close, k)}}
                  \cup {Len(s) + 1})
    IN after(<<"<", "/">> \o name \o <<">">>, toLowerCase(s))

\* The character references of & < > " ' stand for their characters.
DecodeEntities(value) ==
    ReplaceAll(ReplaceAll(ReplaceAll(ReplaceAll(ReplaceAll(value,
        <<"&", "l", "t", ";">>, <<"<">>), <<"&", "g", "t", ";">>, <<">">>), <<"&", "q", "u", "o", "t", ";">>, <<"\"">>), <<"&", "#", "3", "9", ";">>, <<APOSTROPHE>>),
        <<"&", "a", "m", "p", ";">>, <<"&">>)
\* escapeHtml of sanitize-html: & < > and, in attribute values, ".
EscapeText(text) ==
    ReplaceAll(ReplaceAll(ReplaceAll(text, <<"&">>, <<"&", "a", "m", "p", ";">>), <<"<">>, <<"&", "l", "t", ";">>), <<">">>, <<"&", "g", "t", ";">>)
EscapeValue(value) == ReplaceAll(EscapeText(value), <<"\"">>, <<"&", "q", "u", "o", "t", ";">>)

\* s without white space at its ends, as CSS and HTML see white space.
Strip(s) ==
    LET inked == {k \in 1..Len(s) : s[k] \notin HtmlSpace}
    IN IF inked = {} THEN <<>>
       ELSE SubSeq(s, First(inked), CHOOSE k \in inked : \A m \in inked : m <= k)

\* The scheme of a URL without its white space: a letter and then letters,
\* digits, ".", "-" and "+" before the first ":", in lower case; none otherwise.
SchemeOf(href) ==
    LET url == SelectSeq(href, LAMBDA c : c \notin HtmlSpace)
        colons == {k \in 1..Len(url) : url[k] = ":"}
    IN IF /\ colons # {}
          /\ First(colons) >= 2
          /\ url[1] \in AsciiLetters
          /\ \A k \in 2..(First(colons) - 1) :
                 url[k] \in AsciiLetters \cup Digits \cup {".", "-", "+"}
       THEN {toLowerCase(SubSeq(url, 1, First(colons) - 1))}
       ELSE {}
\* naughtyHref: the URL has a scheme that is not allowed.  A URL without
\* scheme is kept.
naughtyHref(href) ==
    LET naughty(scheme) == scheme # {} /\ scheme \cap AllowedSchemes = {}
    IN naughty(SchemeOf(href))

\* The pieces of s between the separators sep.
RECURSIVE Split(_, _)
Split(s, sep) ==
    LET seps == {k \in 1..Len(s) : s[k] = sep}
    IN IF seps = {} THEN <<s>>
       ELSE <<SubSeq(s, 1, First(seps) - 1)>>
            \o Split(SubSeq(s, First(seps) + 1, Len(s)), sep)
IMPORTANT == <<"!", "i", "m", "p", "o", "r", "t", "a", "n", "t">>
\* The declaration a piece of a style attribute is: property, value and
\* whether it is marked !important.
Declaration(piece) ==
    LET marked(value) ==
            Len(value) >= Len(IMPORTANT)
            /\ MatchAt(value, IMPORTANT, Len(value) - Len(IMPORTANT) + 1)
        valued(prop, value) ==
            [prop |-> prop,
             value |-> IF marked(value)
                       THEN Strip(SubSeq(value, 1, Len(value) - Len(IMPORTANT)))
                       ELSE value,
             important |-> marked(value)]
        at(colon) == valued(Strip(SubSeq(piece, 1, colon - 1)),
                            Strip(SubSeq(piece, colon + 1, Len(piece))))
    IN at(First({k \in 1..Len(piece) : piece[k] = ":"}))
RECURSIVE Join(_, _)
Join(pieces, sep) ==
    IF pieces = <<>> THEN <<>>
    ELSE IF Len(pieces) = 1 THEN pieces[1]
    ELSE pieces[1] \o sep \o Join(Tail(pieces), sep)
\* The style attribute after filterCss and stringifyStyleAttributes: the
\* declarations allowedStyles lets through, as prop:value joined by ";".  A
\* value that is no list of declarations cannot be parsed and is dropped.
FilteredStyle(value) ==
    LET allowed(decl) ==
            decl.prop \in DOMAIN AllowedStyles /\ decl.value \in AllowedStyles[decl.prop]
        text(decl) ==
            decl.prop \o <<":">> \o decl.value
            \o (IF decl.important THEN <<" ">> \o IMPORTANT ELSE <<>>)
        written(kept) == Join([n \in 1..Len(kept) |-> text(kept[n])], <<";">>)
        checked(decls) ==
            IF \A n \in 1..Len(decls) : decls[n].prop # <<>>
            THEN written(SelectSeq(decls, allowed))
            ELSE <<>>
        filtered(pieces) ==
            IF \A n \in 1..Len(pieces) : \E k \in 1..Len(pieces[n]) : pieces[n][k] = ":"
            THEN checked([n \in 1..Len(pieces) |-> Declaration(pieces[n])])
            ELSE <<>>
    IN filtered(SelectSeq(Split(value, ";"), LAMBDA piece : Strip(piece) # <<>>))

\* The value an attribute of the start tag of name is written with, or none:
\* the attribute is dropped when it is not allowed on the tag, when it is
\* empty, when it is an href with a scheme that is not allowed, or when it is
\* a style of which nothing is allowed.
KeptValue(name, attrib) ==
    LET kept(value) ==
            IF attrib.name \notin AllowedAttributes(name) \/ value = <<>> THEN {}
            ELSE IF attrib.name = <<"h", "r", "e", "f">>
                 THEN (IF naughtyHref(value) THEN {} ELSE {value})
                 ELSE IF attrib.name = <<"s", "t", "y", "l", "e">>
                      THEN {FilteredStyle(value)} \ {<<>>}
                      ELSE {value}
    IN kept(DecodeEntities(attrib.value))

RECURSIVE WrittenAttribs(_, _)
WrittenAttribs(name, attribs) ==
    IF attribs = <<>> THEN <<>>
    ELSE LET written(kept) ==
                 IF kept = {} THEN <<>>
                 ELSE <<" ">> \o Head(attribs).name \o <<"=", "\"">>
                      \o EscapeValue(CHOOSE value \in kept : TRUE) \o <<"\"">>
         IN written(IF Head(attribs).first THEN KeptValue(name, Head(attribs)) ELSE {})
            \o WrittenAttribs(name, Tail(attribs))

\* The start tag sanitize-html writes for an allowed tag.
StartTag(name, attribs) ==
    <<"<">> \o name \o WrittenAttribs(name, attribs)
    \o (IF name \in VoidElements THEN <<" ", "/", ">">> ELSE <<">">>)

\* The end tags of the open elements names, innermost first: those of the
\* allowed tags are written.
RECURSIVE EndTags(_)
EndTags(names) ==
    IF names = <<>> THEN <<>>
    ELSE (IF Head(names) \in AllowedTags THEN <<"<", "/">> \o Head(names) \o <<">">>
          ELSE <<>>)
         \o EndTags(Tail(names))

\* How many of the innermost open elements the start tag of name closes.
RECURSIVE ImpliedCloses(_, _)
ImpliedCloses(name, open) ==
    IF open # <<>> /\ Head(open) \in OpenImpliesClose(name)
    THEN 1 + ImpliedCloses(name, Tail(open))
    ELSE 0

\* sanitizeHtml(rawHtml, HTML_SANITIZE_CONFIG) from position i of s on, open
\* being the elements that are open, innermost first.  An allowed tag is kept
\* with its allowed attributes, a script or style element is dropped with its
\* content, any other tag is dropped and its content kept; text is escaped;
\* an end tag closes the elements inside its own, one without start tag is
\* ignored (but </p> stands for an empty paragraph and </br> for a line
\* break), and what is open at the end is closed; a tag the text ends in is
\* ignored.  Comments, declarations and character references other than those
\* of & < > " ' are not represented.
RECURSIVE SanitizeFrom(_, _, _)
SanitizeFrom(s, i, open) ==
    LET \* an end tag of name, depth being how deep its element is among the
        \* open ones, 0 when it is not open
        ended(j, name, depth) ==
            IF depth > 0
            THEN EndTags(SubSeq(open, 1, depth))
                 \o SanitizeFrom(s, j + 1, SubSeq(open, depth + 1, Len(open)))
            ELSE (IF name = <<"p">> THEN <<"<", "p", ">", "<", "/", "p", ">">>
                  ELSE IF name = <<"b", "r">> THEN <<"<", "b", "r", " ", "/", ">">>
                  ELSE <<>>)
                 \o SanitizeFrom(s, j + 1, open)
        \* a start tag of name that closes the closed innermost open elements
        started(j, name, closed) ==
            EndTags(SubSeq(open, 1, closed))
            \o (IF name \in NonTextTags
                THEN SanitizeFrom(s, AfterClosing(s, j, name),
                                  SubSeq(open, closed + 1, Len(open)))
                ELSE (IF name \in AllowedTags
                      THEN StartTag(name, TagAttribs(s, i)) ELSE <<>>)
                     \o SanitizeFrom(s, j + 1,
                                     (IF name \in VoidElements THEN <<>> ELSE <<name>>)
                                     \o SubSeq(open, closed + 1, Len(open))))
        named(j, name) ==
            IF s[i + 1] = "/"
            THEN ended(j, name, Least({n \in 1..Len(open) : open[n] = name}))
            ELSE started(j, name, ImpliedCloses(name, open))
        tag(j) == IF j = 0 THEN EndTags(open) ELSE named(j, TagName(s, i, j))
        entity(e) == MatchAt(s, e, i)
        \* text runs to the next character that is escaped
        text(run) ==
            IF run > i THEN SubSeq(s, i, run - 1) \o SanitizeFrom(s, run, open)
            ELSE IF entity(<<"&", "a", "m", "p", ";">>) THEN <<"&", "a", "m", "p", ";">> \o SanitizeFrom(s, i + 5, open)
            ELSE IF entity(<<"&", "l", "t", ";">>) THEN <<"&", "l", "t", ";">> \o SanitizeFrom(s, i + 4, open)
            ELSE IF entity(<<"&", "g", "t", ";">>) THEN <<"&", "g", "t", ";">> \o SanitizeFrom(s, i + 4, open)
            ELSE IF entity(<<"&", "q", "u", "o", "t", ";">>) THEN <<"\"">> \o SanitizeFrom(s, i + 6, open)
            ELSE IF entity(<<"&", "#", "3", "9", ";">>) THEN <<APOSTROPHE>> \o SanitizeFrom(s, i + 5, open)
            ELSE (CASE s[i] = "&" -> <<"&", "a", "m", "p", ";">>
                    [] s[i] = "<" -> <<"&", "l", "t", ";">>
                    [] OTHER -> <<"&", "g", "t", ";">>)
                 \o SanitizeFrom(s, i + 1, open)
    IN IF i > Len(s) THEN EndTags(open)
       ELSE IF OpensTag(s, i) THEN tag(TagEnd(s, i))
       ELSE text(First({k \in i..(Len(s) + 1) : k = Len(s) + 1 \/ s[k] \in {"&", "<", ">"}}))
sanitizeHtml(rawHtml) == SanitizeFrom(rawHtml, 1, <<>>)

\* escapeHtml(fallbackText).replaceAll("\n", "<br/>")
FallbackHtml(fallbackText) == ReplaceAll(escapeHtml(fallbackText), <<"\n">>, <<"<", "b", "r", "/", ">">>)

\* Mutant: an empty sanitizer output is returned as it is.
sanitizeMainBodyHtmlNoFallback(rawHtml, fallbackText) ==
    IF rawHtml = {} \/ Trim(CHOOSE h \in rawHtml : TRUE) = <<>>
    THEN FallbackHtml(fallbackText)
    ELSE Trim(sanitizeHtml(CHOOSE h \in rawHtml : TRUE))

\* sanitizeMainBodyHtml(rawHtml, fallbackText); rawHtml is {} when undefined.
sanitizeMainBodyHtml(rawHtml, fallbackText) ==
    IF rawHtml = {} \/ Trim(CHOOSE h \in rawHtml : TRUE) = <<>>
    THEN FallbackHtml(fallbackText)
    ELSE LET orFallback(sanitized) ==
                 IF sanitized = <<>> THEN FallbackHtml(fallbackText) ELSE sanitized
         IN orFallback(Trim(sanitizeHtml(CHOOSE h \in rawHtml : TRUE)))

\* renderRecipientTemplate(sanitizedMainBodyHtml, recipient).trim()
recipientBodyHtml(html, recipient) == Trim(renderRecipientTemplate(html, recipient))

\* buildEmailHtml, its two parts that depend on the request: the escaped
\* greeting line and the main body as it is.
buildEmailHtml(mainBodyHtml, recipient) ==
    [greeting |-> escapeHtml(renderRecipientTemplate(<<"H", "i", " ", "{", "{", "n", "a", "m", "e", "}", "}", ",">>, recipient)),
     main |-> mainBodyHtml]

\* n line breaks
Breaks(n) == [k \in 1..n |-> "\n"]
\* The line breaks html-to-text puts before and after a block: two around a
\* paragraph, a list or a quotation, one around a div.
BlockBreaks(name) ==
    IF name \in { <<"p">>, <<"u", "l">>, <<"o", "l">>,
                  <<"b", "l", "o", "c", "k", "q", "u", "o", "t", "e">> } THEN 2
    ELSE IF name = <<"d", "i", "v">> THEN 1
    ELSE 0
\* The href of the start tag at position i of html, none when it has none or
\* an empty one, or one that starts with "#"; a leading mailto: is left out.
LinkHref(html, i) ==
    LET hrefs(attribs) ==
            { DecodeEntities(attribs[n].value) :
                n \in {n \in 1..Len(attribs) :
                          attribs[n].first /\ attribs[n].name = <<"h", "r", "e", "f">>} }
        shown(href) ==
            IF IsPrefix(<<"m", "a", "i", "l", "t", "o", ":">>, href)
            THEN SubSeq(href, 8, Len(href)) ELSE href
    IN { href \in { shown(href) : href \in hrefs(TagAttribs(html, i)) } :
           href # <<>> /\ href[1] # "#" }

\* htmlToPlainText(html): convert(html, ...).trim() on the sanitizer's output,
\* from position i of html on with breaks line breaks due before the next
\* text.  The tags are dropped; a br is a line break; the line breaks around
\* blocks that meet are not added up, the most counts; a link is its text
\* followed by its href in brackets, unless the href is the text; the
\* character references stand for their characters again.  List markers,
\* quotation marks and the collapsing of white space are not represented.
RECURSIVE PlainFrom(_, _, _)
PlainFrom(html, i, breaks) ==
    LET entity(e) == MatchAt(html, e, i)
        \* text runs to the next tag or character reference
        text(run) ==
            Breaks(breaks)
            \o (IF entity(<<"&", "a", "m", "p", ";">>) THEN <<"&">> \o PlainFrom(html, i + 5, 0)
                ELSE IF entity(<<"&", "l", "t", ";">>) THEN <<"<">> \o PlainFrom(html, i + 4, 0)
                ELSE IF entity(<<"&", "g", "t", ";">>) THEN <<">">> \o PlainFrom(html, i + 4, 0)
                ELSE IF entity(<<"&", "q", "u", "o", "t", ";">>) THEN <<"\"">> \o PlainFrom(html, i + 6, 0)
                ELSE IF entity(<<"&", "#", "3", "9", ";">>) THEN <<APOSTROPHE>> \o PlainFrom(html, i + 5, 0)
                ELSE SubSeq(html, i, run - 1) \o PlainFrom(html, run, 0))
        \* a link with an href: its text, and the href unless it is the text
        shown(inner, href) ==
            inner
            \o (IF href = {inner} THEN <<>>
                ELSE IF inner = <<>> THEN CHOOSE h \in href : TRUE
                ELSE <<" ", "[">> \o (CHOOSE h \in href : TRUE) \o <<"]">>)
        \* close is the position after the end tag of the link, or after html
        link(j, href, close) ==
            Breaks(breaks)
            \o shown(PlainFrom(SubSeq(html, j + 1,
                                      IF close - 4 > j /\ MatchAt(html, <<"<", "/", "a", ">">>, close - 4)
                                      THEN close - 5 ELSE Len(html)), 1, 0),
                     href)
            \o PlainFrom(html, close, 0)
        anchor(j, href) ==
            IF href # {} THEN link(j, href, AfterClosing(html, j, <<"a">>))
            ELSE PlainFrom(html, j + 1, breaks)
        block(j, due) == PlainFrom(html, j + 1, IF due > breaks THEN due ELSE breaks)
        named(j, name) ==
            IF name = <<"b", "r">> /\ html[i + 1] # "/"
            THEN Breaks(breaks) \o <<"\n">> \o PlainFrom(html, j + 1, 0)
            ELSE IF name = <<"a">> /\ html[i + 1] # "/" THEN anchor(j, LinkHref(html, i))
            ELSE block(j, BlockBreaks(name))
        run == First({k \in (i + 1)..(Len(html) + 1) :
                         k = Len(html) + 1 \/ html[k] \in {"&", "<"}})
        tag(j) == IF j = 0 THEN text(run) ELSE named(j, TagName(html, i, j))
    IN IF i > Len(html) THEN <<>>
       ELSE IF OpensTag(html, i) THEN tag(TagEnd(html, i))
       ELSE text(run)
htmlToPlainText(html) == Trim(PlainFrom(html, 1, 0))

\* requestPayload.bodyText.trim() || htmlToPlainText(sanitizedMainBodyHtml)
NormalizedMainBodyText(data, html) ==
    IF Trim(data.bodyText) # <<>> THEN Trim(data.bodyText) ELSE htmlToPlainText(html)

\* --------------------------------------------------------------- the ledger

\* prisma.campaign.create({ data: { subject, body } })
CampaignRow(id, data, html) ==
    [id |-> id, subject |-> data.subject, body |-> NormalizedMainBodyText(data, html)]

\* info.messageId || null
OrNull(messageId) == IF messageId = <<>> THEN {} ELSE {messageId}

\* Mutant: the row is written with the schema's default status.
SentRowPending(id, cid, recipient, p) ==
    [id |-> id, campaignId |-> cid, recipientId |-> recipient.id,
     status |-> "PENDING", providerMessageId |-> p.providerMessageId,
     error |-> {}, sentAt |-> p.sentAt]

\* Mutant: the row refers to the campaign created last, by whichever request.
SentRowLatestCampaign(id, cid, recipient, p) ==
    [id |-> id, campaignId |-> Len(campaigns), recipientId |-> recipient.id,
     status |-> "SENT", providerMessageId |-> p.providerMessageId,
     error |-> {}, sentAt |-> p.sentAt]

\* prisma.delivery.create of the try block
SentRow(id, cid, recipient, p) ==
    [id |-> id, campaignId |-> cid, recipientId |-> recipient.id,
     status |-> "SENT", providerMessageId |-> p.providerMessageId,
     error |-> {}, sentAt |-> p.sentAt]

\* prisma.delivery.create of the catch block
FailedRow(id, cid, recipient, p) ==
    [id |-> id, campaignId |-> cid, recipientId |-> recipient.id,
     status |-> "FAILED", providerMessageId |-> {},
     error |-> {Slice(p.message, ERROR_SLICE)}, sentAt |-> {}]

\* Mutant: the write is an upsert keyed by the recipient; it replaces the row
\* an earlier campaign wrote for the recipient.
UpsertDelivery(table, row) ==
    IF \E i \in 1..Len(table) : table[i].recipientId = row.recipientId
    THEN [i \in 1..Len(table) |->
             IF table[i].recipientId = row.recipientId
             THEN [row EXCEPT !.id = table[i].id] ELSE table[i]]
    ELSE Append(table, row)

\* prisma.delivery.create: the row is inserted, no stored row is touched.
InsertDelivery(table, row) == Append(table, row)

\* results.push of the try block
SentResult(recipient, p) ==
    [recipientId |-> recipient.id, email |-> recipient.email, status |-> "SENT",
     error |-> {}, sentAt |-> p.sentAt]

\* results.push of the catch block
FailedResult(recipient, p) ==
    [recipientId |-> recipient.id, email |-> recipient.email, status |-> "FAILED",
     error |-> {p.message}, sentAt |-> {}]

\* ---------------------------------------------------------------- transport

\* requiredEnv: the first variable sendGmailMessage finds missing, if any.
MissingVariable ==
    IF "GMAIL_USER" \notin env THEN {"GMAIL_USER"}
    ELSE IF "GMAIL_APP_PASSWORD" \notin env THEN {"GMAIL_APP_PASSWORD"}
    ELSE {}
\* new Error("Missing environment variable: " + name)
MissingEnvError(name) ==
    ErrorOf(<<"M", "i", "s", "s", "i", "n", "g", " ", "e", "n", "v", "i", "r", "o", "n", "m", "e", "n", "t", " ", "v", "a", "r", "i", "a", "b", "l", "e", ":", " ">>
            \o (IF name = "GMAIL_USER" THEN <<"G", "M", "A", "I", "L", "_", "U", "S", "E", "R">>
                ELSE <<"G", "M", "A", "I", "L", "_", "A", "P", "P", "_", "P", "A", "S", "S", "W", "O", "R", "D">>))

\* Mutant: every message of a request goes to its first recipient.
TransportCallToFirst(r, i, recipient, data) ==
    [req |-> r, idx |-> i, recipientId |-> recipient.id, to |-> resolved[r][1].email,
     subject |-> renderRecipientTemplate(data.subject, recipient),
     html |-> buildEmailHtml(recipientBodyHtml(content[r].html, recipient), recipient),
     attachments |-> data.attachments,
     state |-> "inflight", error |-> {}]

\* The sendGmailMessage call of one loop iteration, as it starts.
TransportCall(r, i, recipient, data) ==
    [req |-> r, idx |-> i, recipientId |-> recipient.id, to |-> recipient.email,
     subject |-> renderRecipientTemplate(data.subject, recipient),
     html |-> buildEmailHtml(recipientBodyHtml(content[r].html, recipient), recipient),
     attachments |-> data.attachments,
     state |-> "inflight", error |-> {}]

\* The position in calls of the call invocation r is awaiting.
InFlightOf(r) ==
    CHOOSE k \in 1..Len(calls) : calls[k].req = r /\ calls[k].state = "inflight"

\* ------------------------------------------------------------- the handler

\* res.status(...).json(...): the invocation is over.
Respond(r, resp) ==
    /\ response' = [response EXCEPT ![r] = {resp}]
    /\ pc' = [pc EXCEPT ![r] = "done"]

\* History: the operation invocation r awaited has settled as op.
Logged(r, op) == log' = [log EXCEPT ![r] = Append(log[r], op)]

\* A database operation may throw, at most MaxDbFailures times in a behaviour.
DbMayFail == dbFailures < MaxDbFailures

\* Mutant: sendGmailMessage is not awaited, every remaining call starts at once.
LoopNextNoAwait(r, cid, res, op) ==
    /\ results' = [results EXCEPT ![r] = res]
    /\ pending' = [pending EXCEPT ![r] = NoPending]
    /\ IF idx[r] < Len(resolved[r])
       THEN /\ idx' = [idx EXCEPT ![r] = idx[r] + 1]
            /\ calls' = calls \o
                   [i \in 1..(Len(resolved[r]) - idx[r]) |->
                       TransportCall(r, idx[r] + i, resolved[r][idx[r] + i], payload[r])]
            /\ log' = [log EXCEPT ![r] = log[r] \o <<op, "send">>]
            /\ pc' = [pc EXCEPT ![r] = "sending"]
            /\ UNCHANGED response
       ELSE /\ response' = [response EXCEPT ![r] = {OkResponse(cid, res)}]
            /\ pc' = [pc EXCEPT ![r] = "done"]
            /\ log' = [log EXCEPT ![r] = Append(log[r], op)]
            /\ UNCHANGED <<idx, calls>>

\* The for loop once the awaited operation op has settled and the iteration at
\* idx[r] (if any) has pushed its result: the next iteration runs up to its
\* await of sendGmailMessage, or the loop is over and the 200 response is sent.
LoopNext(r, cid, res, op) ==
    /\ results' = [results EXCEPT ![r] = res]
    /\ pending' = [pending EXCEPT ![r] = NoPending]
    /\ IF idx[r] < Len(resolved[r])
       THEN /\ idx' = [idx EXCEPT ![r] = idx[r] + 1]
            /\ calls' = Append(calls, TransportCall(r, idx[r] + 1,
                                   resolved[r][idx[r] + 1], payload[r]))
            /\ log' = [log EXCEPT ![r] = log[r] \o <<op, "send">>]
            /\ pc' = [pc EXCEPT ![r] = "sending"]
            /\ UNCHANGED response
       ELSE /\ Respond(r, OkResponse(cid, res))
            /\ Logged(r, op)
            /\ UNCHANGED <<idx, calls>>

\* Lines 434-450: the method check and parseSendRequest; an accepted request
\* goes on to await recipient.findMany.  Invocations are numbered in the order
\* their requests arrive.
Receive(r, req) ==
    /\ pc[r] = "idle"
    /\ \A q \in Reqs : q < r => pc[q] # "idle"
    /\ req.method = "POST" => ~IsMultipart(req.contentType)
    /\ input' = [input EXCEPT ![r] = req]
    /\ IF req.method # "POST"
       THEN /\ Respond(r, ErrorResponse(405, {"POST"}, MSG_METHOD))
            /\ UNCHANGED payload
       ELSE LET parsed == parseSendRequest(req)
            IN IF parsed.ok
               THEN /\ payload' = [payload EXCEPT ![r] = parsed.data]
                    /\ pc' = [pc EXCEPT ![r] = "findMany"]
                    /\ UNCHANGED response
               ELSE /\ Respond(r, ErrorResponse(400, {},
                                   IF parsed.error.isError THEN parsed.error.message
                                   ELSE MSG_INVALID))
                    /\ UNCHANGED payload
    /\ UNCHANGED <<tempFiles, upload, content, otherRoutes, mailer>>
    /\ UNCHANGED <<recipients, campaigns, deliveries, calls, clock, dbFailures,
                   resolved, idx, campaign, results, pending, log>>

\* Lines 452-470: findMany returns; no active recipient ends the request with
\* 400, otherwise the handler goes on to await campaign.create.
FindMany(r) ==
    /\ pc[r] = "findMany"
    /\ Logged(r, "findMany")
    /\ \E found \in FindActiveRecipients(recipients, UniqueIds(payload[r].recipientIds)) :
          /\ resolved' = [resolved EXCEPT ![r] = found]
          /\ IF Len(found) = 0
             THEN /\ Respond(r, ErrorResponse(400, {}, MSG_NO_ACTIVE))
                  /\ UNCHANGED content
             ELSE /\ content' = [content EXCEPT ![r] =
                          [html |-> sanitizeMainBodyHtml(payload[r].bodyHtml,
                                                         payload[r].bodyText)]]
                  /\ pc' = [pc EXCEPT ![r] = "createCampaign"]
                  /\ UNCHANGED response
    /\ UNCHANGED <<tempFiles, upload, otherRoutes, mailer>>
    /\ UNCHANGED <<recipients, campaigns, deliveries, calls, clock, dbFailures,
                   input, payload, idx, campaign, results, pending>>

\* findMany throws: the outer catch answers 500.
FindManyThrows(r) ==
    /\ pc[r] = "findMany"
    /\ DbMayFail
    /\ dbFailures' = dbFailures + 1
    /\ Logged(r, "findMany:throw")
    /\ Respond(r, UnexpectedResponse(DbError))
    /\ UNCHANGED <<tempFiles, upload, content, otherRoutes, mailer>>
    /\ UNCHANGED <<recipients, campaigns, deliveries, calls, clock, input, payload,
                   resolved, idx, campaign, results, pending>>

\* Mutant: campaign.create sits inside the loop, one row per recipient.
CreateCampaignPerRecipient(r) ==
    /\ pc[r] = "createCampaign"
    /\ campaigns' = campaigns \o
           [i \in 1..Len(resolved[r]) |-> CampaignRow(Len(campaigns) + i, payload[r], content[r].html)]
    /\ campaign' = [campaign EXCEPT ![r] = {Len(campaigns) + Len(resolved[r])}]
    /\ idx' = [idx EXCEPT ![r] = 1]
    /\ calls' = Append(calls, TransportCall(r, 1, resolved[r][1], payload[r]))
    /\ log' = [log EXCEPT ![r] = log[r] \o <<"campaign.create", "send">>]
    /\ pc' = [pc EXCEPT ![r] = "sending"]
    /\ UNCHANGED <<tempFiles, upload, content, otherRoutes, mailer>>
    /\ UNCHANGED <<recipients, deliveries, clock, dbFailures, input, payload,
                   resolved, results, pending, response>>

\* Lines 470-496: campaign.create returns; the loop starts and runs up to the
\* first await of sendGmailMessage.
CreateCampaign(r) ==
    /\ pc[r] = "createCampaign"
    /\ campaigns' = Append(campaigns, CampaignRow(Len(campaigns) + 1, payload[r], content[r].html))
    /\ campaign' = [campaign EXCEPT ![r] = {Len(campaigns) + 1}]
    /\ LoopNext(r, Len(campaigns) + 1, <<>>, "campaign.create")
    /\ UNCHANGED <<tempFiles, upload, content, otherRoutes, mailer>>
    /\ UNCHANGED <<recipients, deliveries, clock, dbFailures, input, payload,
                   resolved>>

\* campaign.create throws: the outer catch answers 500.
CreateCampaignThrows(r) ==
    /\ pc[r] = "createCampaign"
    /\ DbMayFail
    /\ dbFailures' = dbFailures + 1
    /\ Logged(r, "campaign.create:throw")
    /\ Respond(r, UnexpectedResponse(DbError))
    /\ UNCHANGED <<tempFiles, upload, content, otherRoutes, mailer>>
    /\ UNCHANGED <<recipients, campaigns, deliveries, calls, clock, input, payload,
                   resolved, idx, campaign, results, pending>>

\* Lines 496-506: sendGmailMessage resolves, which takes the account
\* configuration; sentAt is read and the handler awaits the delivery.create of
\* the try block.
SendResolves(r) ==
    /\ pc[r] = "sending"
    /\ MissingVariable = {}
    /\ calls' = [calls EXCEPT ![InFlightOf(r)].state = "ok"]
    /\ pending' = [pending EXCEPT ![r] =
                       [status |-> "SENT", providerMessageId |-> OrNull(MessageId),
                        sentAt |-> {clock}, message |-> <<>>]]
    /\ clock' = clock + 1
    /\ pc' = [pc EXCEPT ![r] = "createSent"]
    /\ Logged(r, "send:ok")
    /\ UNCHANGED <<tempFiles, upload, content, otherRoutes, mailer>>
    /\ UNCHANGED <<recipients, campaigns, deliveries, dbFailures, input, payload,
                   resolved, idx, campaign, results, response>>

\* Lines 522-530: what the catch block does with the value it caught, up to
\* its await of delivery.create.
Catch(r, error) ==
    /\ pending' = [pending EXCEPT ![r] =
                       [status |-> "FAILED", providerMessageId |-> {}, sentAt |-> {},
                        message |-> CaughtMessage(error)]]
    /\ pc' = [pc EXCEPT ![r] = "createFailed"]

\* sendGmailMessage rejects, with the error of requiredEnv when a variable is
\* missing and with an error of the transport otherwise: the catch block runs.
SendRejects(r, error) ==
    /\ pc[r] = "sending"
    /\ IF MissingVariable = {} THEN error \in TransportErrors
       ELSE error \in {MissingEnvError(name) : name \in MissingVariable}
    /\ calls' = [calls EXCEPT ![InFlightOf(r)].state = "err",
                              ![InFlightOf(r)].error = {CaughtMessage(error)}]
    /\ Catch(r, error)
    /\ Logged(r, "send:throw")
    /\ UNCHANGED <<tempFiles, upload, content, otherRoutes, mailer>>
    /\ UNCHANGED <<recipients, campaigns, deliveries, clock, dbFailures, input,
                   payload, resolved, idx, campaign, results, response>>

\* Lines 506-521: the delivery.create of the try block returns; the result is
\* pushed and the loop goes on.
CreateSent(r) ==
    /\ pc[r] = "createSent"
    /\ deliveries' = InsertDelivery(deliveries,
           SentRow(Len(deliveries) + 1, CHOOSE c \in campaign[r] : TRUE,
                   resolved[r][idx[r]], pending[r]))
    /\ LoopNext(r, CHOOSE c \in campaign[r] : TRUE,
                Append(results[r], SentResult(resolved[r][idx[r]], pending[r])),
                "delivery.create:SENT")
    /\ UNCHANGED <<tempFiles, upload, content, otherRoutes, mailer>>
    /\ UNCHANGED <<recipients, campaigns, clock, dbFailures, input, payload,
                   resolved, campaign>>

\* Mutant: the delivery.create of the try block sits outside the try; its
\* throw goes to the outer catch.
CreateSentEscapes(r) ==
    /\ pc[r] = "createSent"
    /\ DbMayFail
    /\ dbFailures' = dbFailures + 1
    /\ Logged(r, "delivery.create:SENT:throw")
    /\ Respond(r, UnexpectedResponse(DbError))
    /\ UNCHANGED <<tempFiles, upload, content, otherRoutes, mailer>>
    /\ UNCHANGED <<recipients, campaigns, deliveries, calls, clock, input, payload,
                   resolved, idx, campaign, results, pending>>

\* The delivery.create of the try block throws: it is inside the try, so the
\* catch block runs with the database error.
CreateSentThrows(r) ==
    /\ pc[r] = "createSent"
    /\ DbMayFail
    /\ dbFailures' = dbFailures + 1
    /\ Catch(r, DbError)
    /\ Logged(r, "delivery.create:SENT:throw")
    /\ UNCHANGED <<tempFiles, upload, content, otherRoutes, mailer>>
    /\ UNCHANGED <<recipients, campaigns, deliveries, calls, clock, input, payload,
                   resolved, idx, campaign, results, response>>

\* Lines 530-545: the delivery.create of the catch block returns; the result
\* is pushed and the loop goes on.
CreateFailed(r) ==
    /\ pc[r] = "createFailed"
    /\ deliveries' = InsertDelivery(deliveries,
           FailedRow(Len(deliveries) + 1, CHOOSE c \in campaign[r] : TRUE,
                     resolved[r][idx[r]], pending[r]))
    /\ LoopNext(r, CHOOSE c \in campaign[r] : TRUE,
                Append(results[r], FailedResult(resolved[r][idx[r]], pending[r])),
                "delivery.create:FAILED")
    /\ UNCHANGED <<tempFiles, upload, content, otherRoutes, mailer>>
    /\ UNCHANGED <<recipients, campaigns, clock, dbFailures, input, payload,
                   resolved, campaign>>

\* The delivery.create of the catch block throws: nothing catches it before
\* the outer catch, which answers 500.
CreateFailedThrows(r) ==
    /\ pc[r] = "createFailed"
    /\ DbMayFail
    /\ dbFailures' = dbFailures + 1
    /\ Logged(r, "delivery.create:FAILED:throw")
    /\ Respond(r, UnexpectedResponse(DbError))
    /\ UNCHANGED <<tempFiles, upload, content, otherRoutes, mailer>>
    /\ UNCHANGED <<recipients, campaigns, deliveries, calls, clock, input, payload,
                   resolved, idx, campaign, results, pending>>

Next ==
    \/ \E r \in Reqs, req \in Inputs : Receive(r, req)
    \/ \E r \in Reqs : FindMany(r)
    \/ \E r \in Reqs : FindManyThrows(r)
    \/ \E r \in Reqs : CreateCampaign(r)
    \/ \E r \in Reqs : CreateCampaignThrows(r)
    \/ \E r \in Reqs : SendResolves(r)
    \/ \E r \in Reqs, error \in TransportErrors : SendRejects(r, error)
    \/ \E r \in Reqs : CreateSent(r)
    \/ \E r \in Reqs : CreateSentThrows(r)
    \/ \E r \in Reqs : CreateFailed(r)
    \/ \E r \in Reqs : CreateFailedThrows(r)

Spec == Init /\ [][Next]_vars

\* Every operation the handler awaits settles: the database answers or throws,
\* and the transport call resolves or rejects, by its connection, greeting and
\* socket timeouts at the latest.  Nothing makes a request arrive.
Continue(r) ==
    \/ FindMany(r) \/ FindManyThrows(r)
    \/ CreateCampaign(r) \/ CreateCampaignThrows(r)
    \/ SendResolves(r) \/ (\E error \in TransportErrors : SendRejects(r, error))
    \/ CreateSent(r) \/ CreateSentThrows(r)
    \/ CreateFailed(r) \/ CreateFailedThrows(r)
Fairness == \A r \in Reqs : WF_vars(Continue(r))

\* The requests of the fair behaviours: one and two active recipients.
LiveInputs ==
    { JsonRequest("POST", TRUE, ValidBody(ids)) : ids \in {<<"b", "c">>, <<"a", "a", "b">>} }

NextLive ==
    \/ \E r \in Reqs, req \in LiveInputs : Receive(r, req)
    \/ \E r \in Reqs : Continue(r)

LiveSpec == Init /\ [][NextLive]_vars /\ Fairness

\* ------------------------------------------- renderRecipientTemplate alone

\* Longest template, in tokens.
MaxTokens == 2

\* The pieces templates are made of: the three placeholders, an unknown
\* token, a token that differs from a placeholder in case, single and unmatched
\* braces, plain text.
Tokens ==
    { PH_EMAIL, PH_FIRSTNAME, PH_NAME,
      <<"{", "{", "x", "}", "}">>,
      <<"{", "{", "N", "a", "m", "e", "}", "}">>,
      <<"{">>, <<"}", "}">>, <<"a">> }

\* The text of a sequence of tokens.
RECURSIVE Flatten(_)
Flatten(tokens) == IF tokens = <<>> THEN <<>> ELSE Head(tokens) \o Flatten(Tail(tokens))

\* Recipients as the Recipient table can hold them: the name is free text of
\* at most 120 characters or null.
Person(name) == [id |-> "p", email |-> Eml("p"), name |-> name, active |-> TRUE, createdAt |-> 1]
People ==
    { Person({}), Person({<<" ">>}), Person({<<" ", "B", "o", " ">>}),
      Person({<<"$", "&">>}), Person({<<"U", "$", "$">>}),
      Person({<<"{", "{", "n", "a", "m", "e", "}", "}">>}),
      Person({<<"x", "{", "{", "n", "a", "m", "e", "}", "}">>}),
      Person({<<"a", "$", "&">>}),
      Person({<<"$", APOSTROPHE>>}), Person({<<"$", GRAVE>>}),
      Person({<<"\f", "B", "o", NBSP>>}),
      Person({<<VT, BOM, "B", "o", "U+2003", "U+2028">>}),
      Person({<<"<", "b", ">">>}) }

RenderInputs ==
    { [tokens |-> tokens, template |-> Flatten(tokens), recipient |-> {person},
       out |-> {}, again |-> {}] :
          tokens \in UNION {[1..n -> Tokens] : n \in 0..MaxTokens}, person \in People }

InitRender ==
    /\ recipients = InitialRecipients
    /\ InitHandler
    /\ rendering \in RenderInputs
    /\ adds = 0
    /\ addResponse = {}
    /\ env = FullEnv
    /\ socket = NoSockets

\* renderRecipientTemplate(template, recipient) is called and returns.
Render ==
    /\ rendering.out = {}
    /\ rendering.recipient # {}
    /\ rendering' = [rendering EXCEPT !.out =
           {renderRecipientTemplate(rendering.template,
                                    CHOOSE person \in rendering.recipient : TRUE)}]
    /\ UNCHANGED <<recipients, campaigns, deliveries, calls, clock, dbFailures, pc,
                   input, payload, resolved, idx, campaign, results, pending,
                   response, log, content, tempFiles, upload, adds, addResponse, mailer>>

\* renderRecipientTemplate(out, recipient): the text the first call returned is
\* rendered for the same recipient once more.
RenderAgain ==
    /\ rendering.out # {}
    /\ rendering.again = {}
    /\ rendering' = [rendering EXCEPT !.again =
           {renderRecipientTemplate(CHOOSE text \in rendering.out : TRUE,
                                    CHOOSE person \in rendering.recipient : TRUE)}]
    /\ UNCHANGED <<recipients, campaigns, deliveries, calls, clock, dbFailures, pc,
                   input, payload, resolved, idx, campaign, results, pending,
                   response, log, content, tempFiles, upload, adds, addResponse, mailer>>

NextRender == Render \/ RenderAgain

SpecRender == InitRender /\ [][NextRender]_vars

\* ------------------------------------------------------- multipart upload

MSG_TOO_MANY == <<"T", "o", "o", " ", "m", "a", "n", "y", " ", "a", "t", "t", "a", "c", "h", "m", "e", "n", "t", "s", ".", " ", "M", "a", "x", " ", "1", "0", " ", "f", "i", "l", "e", "s", ".">>
MSG_TOO_LARGE == <<"A", "t", "t", "a", "c", "h", "m", "e", "n", "t", "s", " ", "a", "r", "e", " ", "t", "o", "o", " ", "l", "a", "r", "g", "e", ".", " ", "K", "e", "e", "p", " ", "t", "o", "t", "a", "l", " ", "u", "n", "d", "e", "r", " ", "2", "0", "M", "B", ".">>
\* What the multipart parser rejects with.
FileTooLargeError == ErrorOf(<<"m", "a", "x", "F", "i", "l", "e", "S", "i", "z", "e", " ", "e", "x", "c", "e", "e", "d", "e", "d">>)
TotalTooLargeError == ErrorOf(<<"m", "a", "x", "T", "o", "t", "a", "l", "F", "i", "l", "e", "S", "i", "z", "e", " ", "e", "x", "c", "e", "e", "d", "e", "d">>)
EmptyFileError == ErrorOf(<<"f", "i", "l", "e", " ", "s", "i", "z", "e", " ", "s", "h", "o", "u", "l", "d", " ", "b", "e", " ", "g", "r", "e", "a", "t", "e", "r", " ", "t", "h", "a", "n", " ", "0">>)
AbortedError == ErrorOf(<<"R", "e", "q", "u", "e", "s", "t", " ", "a", "b", "o", "r", "t", "e", "d">>)

\* The recipientIds field holds text that is no JSON.
NotJson == [t |-> "malformed", v |-> <<>>]

\* Bytes of the first k file parts.
RECURSIVE TotalBytes(_, _)
TotalBytes(parts, k) == IF k = 0 THEN 0 ELSE parts[k].size + TotalBytes(parts, k - 1)

\* The file part at which the parser gives up: maxFileSize, maxTotalFileSize
\* or allowEmptyFiles: false.
RejectedPart(parts, k) ==
    \/ parts[k].size > MAX_ATTACHMENT_FILE_BYTES
    \/ TotalBytes(parts, k) > MAX_ATTACHMENT_TOTAL_BYTES
    \/ parts[k].size = 0

\* The file the parser writes for part k of the request of invocation r.
TempFile(r, parts, k) ==
    [filepath |-> <<r, k>>, field |-> parts[k].field,
     originalFilename |-> parts[k].originalFilename,
     mimetype |-> parts[k].mimetype, size |-> parts[k].size]

\* The files object of the parser: one entry per field name, in the order the
\* names first occur, each with the files of that name in upload order.
FilesObject(r, parts) ==
    LET names == UniqueIds([k \in 1..Len(parts) |-> parts[k].field])
        all == [k \in 1..Len(parts) |-> TempFile(r, parts, k)]
    IN [n \in 1..Len(names) |->
           [field |-> names[n],
            files |-> SelectSeq(all, LAMBDA f : f.field = names[n])]]

\* parseMultipartBody: form.parse writes every file part it reads to a
\* temporary file; it fails at the first part over a limit, or at the end of a
\* request that was cut short.  written: the temporary files it has created.
parseMultipartBody(r, req) ==
    LET parts == req.files
        bad == {k \in 1..Len(parts) : RejectedPart(parts, k)}
        stop == CHOOSE k \in bad : \A j \in bad : k <= j
        paths(n) == {<<r, k>> : k \in 1..n}
    IN IF bad # {}
       THEN [ok |-> FALSE, files |-> <<>>, written |-> paths(stop),
             error |-> IF parts[stop].size > MAX_ATTACHMENT_FILE_BYTES
                       THEN FileTooLargeError
                       ELSE IF TotalBytes(parts, stop) > MAX_ATTACHMENT_TOTAL_BYTES
                            THEN TotalTooLargeError
                            ELSE EmptyFileError]
       ELSE IF req.aborted
            THEN [ok |-> FALSE, files |-> <<>>, written |-> paths(Len(parts)),
                  error |-> AbortedError]
            ELSE [ok |-> TRUE, files |-> FilesObject(r, parts),
                  written |-> paths(Len(parts)), error |-> ErrorOf(<<>>)]

\* A property key that is an array index: the canonical decimal numeral of
\* an integer below 2^32 - 1.  Numerals without leading zero are ordered by
\* length and then digit by digit.
IsNumeral(name) ==
    /\ Len(name) >= 1
    /\ \A i \in 1..Len(name) : \E d \in 1..10 : DecimalDigits[d] = SubSeq(name, i, i)
    /\ Len(name) > 1 => SubSeq(name, 1, 1) # "0"
DigitAt(name, i) == CHOOSE d \in 0..9 : DecimalDigits[d + 1] = SubSeq(name, i, i)
NumeralLess(a, b) ==
    \/ Len(a) < Len(b)
    \/ /\ Len(a) = Len(b)
       /\ \E i \in 1..Len(a) :
              /\ SubSeq(a, 1, i - 1) = SubSeq(b, 1, i - 1)
              /\ DigitAt(a, i) < DigitAt(b, i)
IsArrayIndex(name) == IsNumeral(name) /\ NumeralLess(name, "4294967295")

\* The entries of files whose positions are ns, by ascending array index.
RECURSIVE AscendingIndex(_, _)
AscendingIndex(files, ns) ==
    IF ns = {} THEN <<>>
    ELSE LET n == CHOOSE n \in ns :
                      \A m \in ns : m = n \/ NumeralLess(files[n].field, files[m].field)
         IN <<files[n]>> \o AscendingIndex(files, ns \ {n})

\* Object.values(files): the entries whose key is an array index come first,
\* by ascending index; the other entries follow in the order they were added.
ObjectValues(files) ==
    AscendingIndex(files, {n \in 1..Len(files) : IsArrayIndex(files[n].field)})
    \o SelectSeq(files, LAMBDA entry : ~IsArrayIndex(entry.field))

RECURSIVE Concat(_)
Concat(values) ==
    IF values = <<>> THEN <<>>
    ELSE Head(values).files \o Concat(Tail(values))

\* flattenFiles: the values of the files object, one after the other.
flattenFiles(files) == Concat(ObjectValues(files))

\* The attachment made of a file that has been read.
Attachment(file) ==
    [filename |-> IF file.originalFilename = "" THEN "attachment"
                  ELSE file.originalFilename,
     content |-> [file |-> file.filepath, byteLength |-> file.size],
     contentType |-> IF file.mimetype = "" THEN {} ELSE {file.mimetype}]

\* Mutant: the count of the files is not checked.
buildAttachmentsNoCount(files, read) ==
    IF \E k \in 1..read : TotalBytes(files, k) > MAX_ATTACHMENT_TOTAL_BYTES
    THEN [state |-> "thrown", attachments |-> <<>>, error |-> ErrorOf(MSG_TOO_LARGE)]
    ELSE [state |-> IF read < Len(files) THEN "readFile" ELSE "returned",
          error |-> ErrorOf(<<>>),
          attachments |-> [k \in 1..read |-> Attachment(files[k])]]

\* buildAttachmentsFromFiles when the first read files have been read: it has
\* thrown, it awaits the readFile of the next file, or it has returned the
\* attachments.
buildAttachmentsFromFiles(files, read) ==
    IF Len(files) > MAX_ATTACHMENT_COUNT
    THEN [state |-> "thrown", attachments |-> <<>>, error |-> ErrorOf(MSG_TOO_MANY)]
    ELSE IF \E k \in 1..read : TotalBytes(files, k) > MAX_ATTACHMENT_TOTAL_BYTES
         THEN [state |-> "thrown", attachments |-> <<>>, error |-> ErrorOf(MSG_TOO_LARGE)]
         ELSE [state |-> IF read < Len(files) THEN "readFile" ELSE "returned",
               error |-> ErrorOf(<<>>),
               attachments |-> [k \in 1..read |-> Attachment(files[k])]]

\* The try block of parseSendRequest on the fields and the uploaded files,
\* when the first read files have been read: it has thrown, it awaits a
\* readFile, or it has returned the payload.  An absent or empty recipientIds
\* field stands for [].
parseMultipartFields(req, uploadedFiles, read) ==
    IF req.body.recipientIds.t = "malformed"
    THEN [state |-> "thrown", data |-> NoPayload, error |-> JsonError]
    ELSE LET raw == req.body.recipientIds
             o == [subject |-> req.body.subject,
                   bodyText |-> req.body.bodyText,
                   bodyHtml |-> req.body.bodyHtml,
                   recipientIds |-> IF raw.t = "undefined" THEN Arr(<<>>) ELSE raw]
             built == buildAttachmentsFromFiles(uploadedFiles, read)
         IN IF ~sendSchemaSuccess(o)
            THEN [state |-> "thrown", data |-> NoPayload, error |-> ErrorOf(MSG_INVALID)]
            ELSE IF built.state = "returned"
                 THEN [state |-> "returned", error |-> ErrorOf(<<>>),
                       data |-> PreparedSendPayload(sendSchemaData(o), built.attachments)]
                 ELSE [state |-> built.state, data |-> NoPayload, error |-> built.error]

\* deleteTempFiles: the files whose unlink it starts, all at once.
deleteTempFiles(files) == {files[k].filepath : k \in 1..Len(files)}

\* The path of a temporary file: the name the parser gave it in its upload
\* directory.
PathText(filepath) ==
    <<"/", "t", "m", "p", "/", "u", "p", "l", "o", "a", "d", "-">> \o NumberText(filepath[1]) \o <<"-">> \o NumberText(filepath[2])
\* What fs.readFile rejects with: the file cannot be read (EIO), or it is no
\* longer there (ENOENT).
ReadErrorCodes == {"EIO", "ENOENT"}
ReadError(code, filepath) ==
    IF code = "EIO"
    THEN ErrorOf(<<"E", "I", "O", ":", " ", "i", "/", "o", " ", "e", "r", "r", "o", "r", ",", " ", "r", "e", "a", "d">>)
    ELSE ErrorOf(<<"E", "N", "O", "E", "N", "T", ":", " ", "n", "o", " ", "s", "u", "c", "h", " ", "f", "i", "l", "e", " ", "o", "r", " ", "d", "i", "r", "e", "c", "t", "o", "r", "y", ",", " ", "o", "p", "e", "n", " ", "'">>
                 \o PathText(filepath) \o <<APOSTROPHE>>)

\* The file system operations of invocation r that have failed: the readFile
\* that was rejected, and the unlinks that left their file on disk.
FsFailures(r) ==
    Cardinality(upload[r].thrown)
    + Cardinality({f \in tempFiles : f[1] = r /\ upload[r].phase = "unlink"} \ upload[r].unlinking)

\* The files parseSendRequest holds for the request of invocation r.
UploadedFiles(r, req) == flattenFiles(parseMultipartBody(r, req).files)

\* parseSendRequest has settled: the payload is returned and the handler goes
\* on to await recipient.findMany, or the error is rethrown and the handler
\* answers 400.
Settle(r, tried) ==
    /\ upload' = [upload EXCEPT ![r] = NoUpload]
    /\ IF tried.state = "returned"
       THEN /\ payload' = [payload EXCEPT ![r] = tried.data]
            /\ pc' = [pc EXCEPT ![r] = "findMany"]
            /\ UNCHANGED response
       ELSE /\ Respond(r, ErrorResponse(400, {}, InvalidMessage(tried.error)))
            /\ UNCHANGED payload

\* Lines 339-365, as far as they run without waiting when read files have been
\* read: the try block awaits the next readFile; or it has ended, and the
\* finally has started the unlinks of deleteTempFiles and awaits them; or, for
\* a request without files, nothing is waited for and parseSendRequest settles.
RunTry(r, req, read) ==
    LET uploadedFiles == UploadedFiles(r, req)
        tried == parseMultipartFields(req, uploadedFiles, read)
    IN IF tried.state = "readFile"
       THEN /\ upload' = [upload EXCEPT ![r] =
                    [phase |-> "read", read |-> read, unlinking |-> {}, thrown |-> {}]]
            /\ pc' = [pc EXCEPT ![r] = "multipart"]
            /\ UNCHANGED <<payload, response>>
       ELSE IF deleteTempFiles(uploadedFiles) = {}
       THEN Settle(r, tried)
       ELSE /\ upload' = [upload EXCEPT ![r] =
                    [phase |-> "unlink", read |-> read,
                     unlinking |-> deleteTempFiles(uploadedFiles), thrown |-> {}]]
            /\ pc' = [pc EXCEPT ![r] = "multipart"]
            /\ UNCHANGED <<payload, response>>

\* Lines 434-447 and 338 for a multipart POST: parseMultipartBody settles.  A
\* parser error is thrown before the try block of parseSendRequest is entered:
\* the handler answers 400 and deleteTempFiles does not run.  Otherwise the
\* try block runs up to its first wait.
ReceiveMultipart(r, req) ==
    /\ pc[r] = "idle"
    /\ \A q \in Reqs : q < r => pc[q] # "idle"
    /\ req.method = "POST" /\ IsMultipart(req.contentType)
    /\ input' = [input EXCEPT ![r] = req]
    /\ LET parsed == parseMultipartBody(r, req)
       IN /\ tempFiles' = tempFiles \cup parsed.written
          /\ IF parsed.ok
             THEN RunTry(r, req, 0)
             ELSE /\ Respond(r, ErrorResponse(400, {}, InvalidMessage(parsed.error)))
                  /\ UNCHANGED <<payload, upload>>
    /\ UNCHANGED <<content, otherRoutes, mailer>>
    /\ UNCHANGED <<recipients, campaigns, deliveries, calls, clock, dbFailures,
                   resolved, idx, campaign, results, pending, log>>

\* A file system operation of invocation r may fail.
FsMayFail(r) ==
    /\ Len(input[r].files) <= MaxFailingFiles
    /\ FsFailures(r) < MaxFsFailures

\* Line 304: the readFile the loop of buildAttachmentsFromFiles awaits is
\* fulfilled, and the try block runs on to its next wait.
ReadFile(r) ==
    /\ pc[r] = "multipart"
    /\ upload[r].phase = "read"
    /\ UploadedFiles(r, input[r])[upload[r].read + 1].filepath \in tempFiles
    /\ RunTry(r, input[r], upload[r].read + 1)
    /\ UNCHANGED <<tempFiles, content, otherRoutes, mailer>>
    /\ UNCHANGED <<recipients, campaigns, deliveries, calls, clock, dbFailures, input,
                   resolved, idx, campaign, results, pending, log>>

\* Line 304: the readFile is rejected, with EIO for a file that is on disk or
\* with ENOENT for one that has gone: buildAttachmentsFromFiles throws what
\* it was rejected with, and the finally starts the unlinks of deleteTempFiles
\* and awaits them.
ReadFileThrows(r, code) ==
    /\ pc[r] = "multipart"
    /\ upload[r].phase = "read"
    /\ FsMayFail(r)
    /\ LET files == UploadedFiles(r, input[r])
           filepath == files[upload[r].read + 1].filepath
       IN /\ filepath \in tempFiles
          /\ tempFiles' = IF code = "ENOENT" THEN tempFiles \ {filepath} ELSE tempFiles
          /\ upload' = [upload EXCEPT ![r] =
                 [phase |-> "unlink", read |-> upload[r].read,
                  unlinking |-> deleteTempFiles(files),
                  thrown |-> {ReadError(code, filepath)}]]
    /\ UNCHANGED <<pc, payload, response>>
    /\ UNCHANGED <<content, otherRoutes, mailer>>
    /\ UNCHANGED <<recipients, campaigns, deliveries, calls, clock, dbFailures, input,
                   resolved, idx, campaign, results, pending, log>>

\* What the try block of parseSendRequest ended with: what a readFile was
\* rejected with, or what the block returned or threw itself.
Tried(r) ==
    IF upload[r].thrown # {}
    THEN [state |-> "thrown", data |-> NoPayload,
          error |-> CHOOSE error \in upload[r].thrown : TRUE]
    ELSE parseMultipartFields(input[r], UploadedFiles(r, input[r]), upload[r].read)

\* Lines 323-326: deleteTempFiles has started every fs.unlink at once, and
\* the file system carries them out in whichever order: the file of one of
\* them is gone, its promise has not settled yet.
Unlinked(r, filepath) ==
    /\ pc[r] = "multipart"
    /\ upload[r].phase = "unlink"
    /\ filepath \in upload[r].unlinking
    /\ filepath \in tempFiles
    /\ tempFiles' = tempFiles \ {filepath}
    /\ UNCHANGED <<pc, payload, response, upload>>
    /\ UNCHANGED <<content, otherRoutes, mailer>>
    /\ UNCHANGED <<recipients, campaigns, deliveries, calls, clock, dbFailures, input,
                   resolved, idx, campaign, results, pending, log>>

\* The promise of one of the unlinks has settled, in whichever order they
\* settle; with the last one Promise.all and then parseSendRequest settle.
UnlinkSettles(r, filepath) ==
    /\ pc[r] = "multipart"
    /\ upload[r].phase = "unlink"
    /\ filepath \in upload[r].unlinking
    /\ IF upload[r].unlinking = {filepath}
       THEN Settle(r, Tried(r))
       ELSE /\ upload' = [upload EXCEPT ![r].unlinking = @ \ {filepath}]
            /\ UNCHANGED <<pc, payload, response>>
    /\ UNCHANGED <<tempFiles, content, otherRoutes, mailer>>
    /\ UNCHANGED <<recipients, campaigns, deliveries, calls, clock, dbFailures, input,
                   resolved, idx, campaign, results, pending, log>>

\* Lines 325-326: the promise of an unlink whose file is gone settles: it is
\* fulfilled; or the file had gone before the unlink started, the promise is
\* rejected with ENOENT and line 327 ignores it.
Unlink(r, filepath) ==
    /\ filepath \notin tempFiles
    /\ UnlinkSettles(r, filepath)

\* Lines 325-329: the promise of an unlink is rejected because the file may
\* not be removed (EPERM); the catch ignores it and the file stays on disk.
UnlinkFails(r, filepath) ==
    /\ filepath \in tempFiles
    /\ FsMayFail(r)
    /\ UnlinkSettles(r, filepath)

\* A file part of a multipart request.  It has a content type: the parser
\* takes a part without one for a field.
Part(field, name, mimetype, size) ==
    [field |-> field, originalFilename |-> name, mimetype |-> mimetype, size |-> size]
\* n parts of one byte each under one field name.
SmallParts(n) == [k \in 1..n |-> Part("files", "a.txt", "text/plain", 1)]

\* The file parts of the multipart requests: none, one, several under one and
\* under two field names, a part without a file name, parts at and over
\* the limit of one file, of all files and of the number of files, an empty
\* part.
Uploads ==
    { <<>>,
      SmallParts(1),
      <<Part("files", "a.txt", "text/plain", 1), Part("files", "", "application/octet-stream", 2)>>,
      <<Part("files", "a.txt", "text/plain", 1), Part("more", "b.txt", "text/plain", 2),
        Part("files", "c.txt", "text/plain", 3)>>,
      <<Part("10", "a.txt", "text/plain", 1), Part("files", "b.txt", "text/plain", 2),
        Part("2", "c.txt", "text/plain", 3), Part("02", "d.txt", "text/plain", 4)>>,
      SmallParts(MAX_ATTACHMENT_COUNT),
      SmallParts(MAX_ATTACHMENT_COUNT + 1),
      <<Part("files", "a.bin", "application/octet-stream", MAX_ATTACHMENT_FILE_BYTES)>>,
      <<Part("files", "a.bin", "application/octet-stream", MAX_ATTACHMENT_FILE_BYTES + 1)>>,
      <<Part("files", "a.bin", "application/octet-stream", MAX_ATTACHMENT_FILE_BYTES),
        Part("files", "b.bin", "application/octet-stream", MAX_ATTACHMENT_FILE_BYTES)>>,
      <<Part("files", "a.bin", "application/octet-stream", MAX_ATTACHMENT_FILE_BYTES),
        Part("files", "b.bin", "application/octet-stream", MAX_ATTACHMENT_FILE_BYTES),
        Part("files", "c.bin", "application/octet-stream", 1)>>,
      <<Part("files", "a.txt", "text/plain", 1), Part("files", "b.txt", "text/plain", 0),
        Part("files", "c.txt", "text/plain", 1)>> }

\* The fields of the multipart requests: accepted ones, and ones the try block
\* of parseSendRequest rejects.
MultipartFields ==
    { ValidBody(<<"c">>),
      ValidBody(<<"b", "c">>),
      [ValidBody(<<"c">>) EXCEPT !.subject = Str(<<" ">>)],
      [ValidBody(<<"c">>) EXCEPT !.recipientIds = NotJson],
      [ValidBody(<<"c">>) EXCEPT !.recipientIds = Undef],
      [ValidBody(<<"c">>) EXCEPT !.recipientIds = Num] }

MultipartRequest(body, files, aborted) ==
    [method |-> "POST", contentType |-> CT_MULTIPART, jsonOk |-> TRUE, body |-> body,
     files |-> files, aborted |-> aborted]

\* Every upload of up to four files with every choice of fields, and the
\* uploads at and over the limit of the number of files with valid fields.
MultipartInputs ==
    { MultipartRequest(body, files, FALSE) :
        body \in MultipartFields, files \in {u \in Uploads : Len(u) <= 4} }
    \cup { MultipartRequest(ValidBody(<<"c">>), files, FALSE) :
             files \in {u \in Uploads : Len(u) > 4} }
    \cup { MultipartRequest(ValidBody(<<"c">>), SmallParts(2), TRUE) }

\* One invocation of the handler on a multipart request.
NextMultipart ==
    \/ \E req \in MultipartInputs : ReceiveMultipart(1, req)
    \/ ReadFile(1)
    \/ \E code \in ReadErrorCodes : ReadFileThrows(1, code)
    \/ \E filepath \in upload[1].unlinking : Unlinked(1, filepath)
    \/ \E filepath \in upload[1].unlinking : Unlink(1, filepath)
    \/ \E filepath \in upload[1].unlinking : UnlinkFails(1, filepath)
    \/ FindMany(1)
    \/ FindManyThrows(1)
    \/ CreateCampaign(1)
    \/ CreateCampaignThrows(1)
    \/ SendResolves(1)
    \/ \E error \in TransportErrors : SendRejects(1, error)
    \/ CreateSent(1)
    \/ CreateSentThrows(1)
    \/ CreateFailed(1)
    \/ CreateFailedThrows(1)

SpecMultipart == Init /\ [][NextMultipart]_vars

\* ------------------------------------------------- the HTML of a message

\* A Recipient table with a name that holds markup.
HtmlRecipients ==
    { [id |-> "b", email |-> Eml("b"), name |-> {<<" ", "B", "o">>}, active |-> TRUE,
       createdAt |-> 1],
      [id |-> "s", email |-> Eml("s"), name |-> {<<"<", "s", "c", "r", "i", "p", "t", ">">>},
       active |-> TRUE, createdAt |-> 2] }

\* Plain-text bodies: plain, with a character escapeHtml replaces, with a
\* placeholder, blank.
HtmlBodyTexts == { <<"B">>, <<"a", "<", "b", "\n", "c">>, PH_NAME, <<" ">> }
\* Rich bodies: none, blank, allowed markup with a placeholder, a script
\* element, a tag that is not allowed, a link with an allowed scheme and an
\* attribute that is not allowed, a link with a scheme that is not allowed
\* before a paragraph with allowed and other styles that is left open,
\* nothing but a script element.
HtmlBodies ==
    { Undef, Str(<<" ">>),
      Str(<<"<", "p", ">", "H", "i", " ", "{", "{", "n", "a", "m", "e", "}", "}", "<", "/", "p", ">">>),
      Str(<<"<", "s", "c", "r", "i", "p", "t", ">", "x", "<", "/", "s", "c", "r", "i", "p", "t", ">", "<", "b", ">", "o", "k", "<", "/", "b", ">">>),
      Str(<<"<", "i", "m", "g", ">", "h", "i">>),
      Str(<<"<", "a", " ", "h", "r", "e", "f", "=", "\"", "h", "t", "t", "p", "s", ":", "/", "/", "x", ".", "i", "o", "\"", " ", "o", "n", "c", "l", "i", "c", "k", "=", "\"", "x", "\"", ">", "x", "<", "/", "a", ">">>),
      Str(<<"<", "a", " ", "h", "r", "e", "f", "=", "\"", "j", "a", "v", "a", "s", "c", "r", "i", "p", "t", ":", "x", "\"", ">", "y", "<", "/", "a", ">", "<", "p", " ", "s", "t", "y", "l", "e", "=", "\"", "c", "o", "l", "o", "r", ":", "r", "e", "d", ";", "f", "o", "n", "t", "-", "w", "e", "i", "g", "h", "t", ":", "b", "o", "l", "d", "\"", ">", "z", "<", "b", "r", ">">>),
      Str(<<"<", "s", "c", "r", "i", "p", "t", ">", "<", "/", "s", "c", "r", "i", "p", "t", ">">>) }

HtmlInputs ==
    { JsonRequest("POST", TRUE,
                  [subject |-> Str(<<"S">>), bodyText |-> Str(text), body |-> Undef,
                   bodyHtml |-> html, recipientIds |-> Arr(ids)]) :
          text \in HtmlBodyTexts, html \in HtmlBodies, ids \in {<<"b">>, <<"b", "s">>} }

InitContent ==
    /\ recipients = HtmlRecipients
    /\ InitHandler
    /\ rendering = NoRendering
    /\ adds = 0
    /\ addResponse = {}
    /\ env = FullEnv
    /\ socket = NoSockets

\* One invocation of the handler on a request of HtmlInputs.
NextContent ==
    \/ \E req \in HtmlInputs : Receive(1, req)
    \/ FindMany(1)
    \/ FindManyThrows(1)
    \/ CreateCampaign(1)
    \/ CreateCampaignThrows(1)
    \/ SendResolves(1)
    \/ \E error \in TransportErrors : SendRejects(1, error)
    \/ CreateSent(1)
    \/ CreateSentThrows(1)
    \/ CreateFailed(1)
    \/ CreateFailedThrows(1)

SpecContent == InitContent /\ [][NextContent]_vars

\* ------------------------------------------- length limits of sendSchema

\* A text of n characters that are not white space.
Fill(n) == [i \in 1..n |-> "x"]
\* The text s inside lead spaces and trail newlines.
Padded(lead, s, trail) == [i \in 1..lead |-> " "] \o s \o [i \in 1..trail |-> "\n"]

\* Lengths at and next to a limit.
Around(max) == {0, 1, max - 1, max, max + 1}

\* Requests whose subject, bodyText or bodyHtml is at or next to its limit, with
\* and without white space around it.  They name the inactive recipient, so
\* that an accepted one ends at the recipient lookup.
BoundaryBodies ==
    { [ValidBody(<<"a">>) EXCEPT !.subject = Str(Padded(lead, Fill(n), trail))] :
          n \in Around(SUBJECT_MAX), lead \in {0, 1}, trail \in {0, 1} }
    \cup
    { [ValidBody(<<"a">>) EXCEPT !.bodyText = Str(Padded(lead, Fill(n), trail))] :
          n \in Around(BODY_TEXT_MAX), lead \in {0, 1}, trail \in {0, 1} }
    \cup
    { [ValidBody(<<"a">>) EXCEPT !.bodyHtml = Str(Padded(lead, Fill(n), 0))] :
          n \in Around(BODY_HTML_MAX - 1), lead \in {0, 1} }

BoundaryInputs == { JsonRequest("POST", TRUE, body) : body \in BoundaryBodies }

\* One invocation of the handler on a request of BoundaryInputs, up to the
\* return of the recipient lookup.
NextBoundary ==
    \/ \E req \in BoundaryInputs : Receive(1, req)
    \/ FindMany(1)
    \/ FindManyThrows(1)

SpecBoundary == Init /\ [][NextBoundary]_vars

\* ------------------------------------------------------ the recipients route

MSG_INVALID_RECIPIENTS == <<"I", "n", "v", "a", "l", "i", "d", " ", "r", "e", "c", "i", "p", "i", "e", "n", "t", " ", "p", "a", "y", "l", "o", "a", "d", ".">>
MSG_MISSING_ID == <<"M", "i", "s", "s", "i", "n", "g", " ", "r", "e", "c", "i", "p", "i", "e", "n", "t", " ", "i", "d", ".">>
MSG_NOT_FOUND == <<"R", "e", "c", "i", "p", "i", "e", "n", "t", " ", "n", "o", "t", " ", "f", "o", "u", "n", "d", ".">>

\* .email(): a local part of letters, digits and _ ' + - . that neither starts
\* with a dot nor ends with a dot or quote, no two dots in a row, one "@", a
\* domain of dot-separated labels starting with a letter or digit, and a last
\* label of two or more letters.
IsEmail(s) ==
    /\ \A i \in 1..(Len(s) - 1) : ~(s[i] = "." /\ s[i + 1] = ".")
    /\ \E at \in 2..Len(s) :
        /\ s[at] = "@"
        /\ \A i \in 1..(at - 1) : s[i] \in AsciiLetters \cup Digits \cup {"_", "'", "+", "-", "."}
        /\ s[1] # "."
        /\ s[at - 1] \notin {".", "'"}
        /\ \E dot \in (at + 2)..(Len(s) - 2) :
            /\ s[dot] = "."
            /\ \A i \in (dot + 1)..Len(s) : s[i] \in AsciiLetters
            /\ \A i \in (at + 1)..(dot - 1) : s[i] \in AsciiLetters \cup Digits \cup {"-", "."}
            /\ s[at + 1] \in AsciiLetters \cup Digits
            /\ \A i \in (at + 1)..(dot - 1) : s[i] = "." => s[i + 1] \in AsciiLetters \cup Digits

\* z.string().trim().max(120).optional()
OptionalName(value) ==
    \/ value.t = "undefined"
    \/ value.t = "string" /\ Len(Trim(value.v)) <= NAME_MAX

\* recipientSchema accepts the entry
recipientSchemaOk(entry) ==
    /\ entry.email.t = "string"
    /\ IsEmail(Trim(entry.email.v))
    /\ OptionalName(entry.firstName)
    /\ OptionalName(entry.name)

\* (value.firstName ?? value.name)?.trim() || undefined   ({} is undefined)
ParsedName(entry) ==
    LET picked == IF entry.firstName.t = "undefined" THEN entry.name ELSE entry.firstName
    IN IF picked.t = "undefined" \/ Trim(picked.v) = <<>> THEN {} ELSE {Trim(picked.v)}

\* The output of recipientSchema for an entry it accepts.
recipientSchema(entry) ==
    [email |-> toLowerCase(Trim(entry.email.v)), name |-> ParsedName(entry)]

\* createRecipientsSchema.safeParse(req.body).success
createRecipientsSchemaOk(body) ==
    /\ body.recipients.t = "array"
    /\ Len(body.recipients.v) >= 1
    /\ \A i \in 1..Len(body.recipients.v) : recipientSchemaOk(body.recipients.v[i])

\* parsed.data.recipients
ParsedRecipients(body) ==
    [i \in 1..Len(body.recipients.v) |-> recipientSchema(body.recipients.v[i])]

\* A list kept as it is: what the route would send without the Map.
KeepAll(list) ==
    [i \in 1..Len(list) |-> [list[i] EXCEPT !.email = toLowerCase(list[i].email)]]

\* Array.from(new Map(list.map(r => [r.email, {...r, email: r.email.toLowerCase()}])).values()):
\* one entry per key, at the place of the key's first entry, with the value of
\* its last entry.
UniqueByEmail(list) ==
    LET firsts == SelectSeq([i \in 1..Len(list) |-> i],
                            LAMBDA i : \A j \in 1..(i - 1) : list[j].email # list[i].email)
        LastOf(i) == CHOOSE j \in 1..Len(list) :
                         /\ list[j].email = list[i].email
                         /\ \A k \in (j + 1)..Len(list) : list[k].email # list[i].email
    IN [n \in 1..Len(firsts) |->
           [list[LastOf(firsts[n])] EXCEPT !.email = toLowerCase(list[firsts[n]].email)]]

\* The unique index on Recipient.email: a row with this email is stored.
EmailTaken(table, email) == \E row \in table : row.email = email

\* The entries of data that createMany with skipDuplicates inserts: those whose
\* email conflicts neither with a stored row nor with an earlier entry.
Insertable(table, data) ==
    SelectSeq([i \in 1..Len(data) |-> i],
              LAMBDA i : /\ ~EmailTaken(table, data[i].email)
                         /\ \A j \in 1..(i - 1) : data[j].email # data[i].email)

\* The rows prisma.recipient.createMany({data, skipDuplicates: true}) adds at
\* time now: fresh ids, active by default.
createMany(table, data, now) ==
    LET picked == Insertable(table, data)
    IN { [id |-> "r" \o ToString(now) \o "-" \o ToString(n),
          email |-> data[picked[n]].email,
          name |-> data[picked[n]].name,
          active |-> TRUE,
          createdAt |-> now] : n \in 1..Len(picked) }

\* orderBy: { createdAt: "desc" }: the orders the database may return the rows
\* in. The rows one createMany inserted have the same createdAt and no order
\* among themselves.
RECURSIVE OrderByCreatedAtDesc(_)
OrderByCreatedAtDesc(rows) ==
    IF rows = {} THEN {<<>>}
    ELSE UNION { { <<first>> \o rest : rest \in OrderByCreatedAtDesc(rows \ {first}) } :
                 first \in { row \in rows :
                                \A other \in rows : row.createdAt >= other.createdAt } }

\* A response of the route: the status and the fields of its JSON body.
RecipientsResponse(status, error, insertedCount, requestedCount, listed) ==
    [status |-> status, error |-> error, insertedCount |-> insertedCount,
     requestedCount |-> requestedCount, recipients |-> listed]

\* The state of the send route, which the recipients route leaves alone.
sendState == <<campaigns, deliveries, calls, pc, input, payload, resolved, idx,
               campaign, results, pending, response, log, content, tempFiles, upload, rendering,
               mailer>>

\* GET: the stored recipients, newest first.
ListRecipients ==
    /\ adds < MaxAdds
    /\ adds' = adds + 1
    /\ \E listed \in OrderByCreatedAtDesc(recipients) :
          addResponse' = {RecipientsResponse(200, {}, 0, 0, listed)}
    /\ UNCHANGED <<recipients, clock, dbFailures, sendState>>

\* POST: a rejected body is answered 400; an accepted one is made unique by
\* email and handed to createMany, whose count is answered with the number of
\* entries handed over.
AddRecipients(body) ==
    /\ adds < MaxAdds
    /\ adds' = adds + 1
    /\ IF ~createRecipientsSchemaOk(body)
       THEN /\ addResponse' = {RecipientsResponse(400, {MSG_INVALID_RECIPIENTS}, 0, 0, <<>>)}
            /\ UNCHANGED <<recipients, clock>>
       ELSE LET data == UniqueByEmail(ParsedRecipients(body))
                rows == createMany(recipients, data, clock)
            IN /\ recipients' = recipients \cup rows
               /\ clock' = clock + 1
               /\ addResponse' = {RecipientsResponse(200, {}, Cardinality(rows), Len(data), <<>>)}
    /\ UNCHANGED <<dbFailures, sendState>>

\* The database operation of a GET, of a POST with an accepted body or of a
\* DELETE with an id throws something without code P2025: nothing is written
\* and the catch answers 500 with the message.
RecipientsDbThrows ==
    /\ adds < MaxAdds
    /\ dbFailures < MaxDbFailures
    /\ adds' = adds + 1
    /\ dbFailures' = dbFailures + 1
    /\ addResponse' = {RecipientsResponse(500, {UnexpectedMessage(DbError)}, 0, 0, <<>>)}
    /\ UNCHANGED <<recipients, clock, sendState>>

\* DELETE: req.query.id is absent (400), the id of a stored row (200), or the
\* id of no row, for which prisma throws P2025 (404).
DeleteRecipient(id) ==
    /\ adds < MaxAdds
    /\ adds' = adds + 1
    /\ IF id = {} \/ id = {""}
       THEN /\ addResponse' = {RecipientsResponse(400, {MSG_MISSING_ID}, 0, 0, <<>>)}
            /\ UNCHANGED recipients
       ELSE IF \E row \in recipients : {row.id} = id
       THEN /\ recipients' = {row \in recipients : {row.id} # id}
            /\ addResponse' = {RecipientsResponse(200, {}, 0, 0, <<>>)}
       ELSE /\ addResponse' = {RecipientsResponse(404, {MSG_NOT_FOUND}, 0, 0, <<>>)}
            /\ UNCHANGED recipients
    /\ UNCHANGED <<clock, dbFailures, sendState>>

\* Any other method: 405.
RecipientsMethodNotAllowed ==
    /\ adds < MaxAdds
    /\ adds' = adds + 1
    /\ addResponse' = {RecipientsResponse(405, {MSG_METHOD}, 0, 0, <<>>)}
    /\ UNCHANGED <<recipients, clock, dbFailures, sendState>>

\* Entries of a bulk-add body.  The same address in two spellings and with
\* surrounding whitespace, a first name of whitespace only, an address without
\* a top-level domain, a name of 121 characters.
Addr(local) == local \o <<"@", "x", ".", "i", "o">>
Entry(email, firstName, name) == [email |-> email, firstName |-> firstName, name |-> name]
EntryA == Entry(Str(Addr(<<"a">>)), Undef, Str(<<"A", "l">>))
EntryUpperA == Entry(Str(<<"A", "@", "X", ".", "i", "o">>), Str(<<" ", "A", "n", "n", " ">>), Str(<<"A", "l">>))
EntryB == Entry(Str(<<" ">> \o Addr(<<"b">>) \o <<" ">>), Undef, Undef)
EntryUpperB == Entry(Str(Addr(<<"B">>)), Str(<<" ">>), Str(<<"B", "o">>))
GoodEntries == {EntryA, EntryUpperA, EntryB, EntryUpperB}
BadEntries ==
    { Entry(Str(<<"a", "@", "x">>), Undef, Undef),
      Entry(Num, Undef, Undef),
      Entry(Str(Addr(<<"c">>)), Undef, Str(Fill(NAME_MAX + 1))) }
RecipientBodies ==
    { [recipients |-> Arr(<<e>>)] : e \in GoodEntries \cup BadEntries }
    \cup { [recipients |-> Arr(<<EntryA, e>>)] : e \in GoodEntries \cup BadEntries }
    \cup { [recipients |-> Arr(list)] :
               list \in { <<EntryUpperA, EntryA>>, <<EntryB, EntryUpperB>>,
                          <<EntryA, EntryB, EntryUpperA>>, <<>> } }
    \cup { [recipients |-> Undef] }

\* The ids a DELETE names: none, an empty one, the first row of the first and
\* of the second insertion, the id of no row.
DeleteIds == {{}, {""}, {"r1-1"}, {"r2-1"}, {"zz"}}

InitRecipients ==
    /\ recipients = {}
    /\ InitHandler
    /\ rendering = NoRendering
    /\ adds = 0
    /\ addResponse = {}
    /\ env = FullEnv
    /\ socket = NoSockets

NextRecipients ==
    \/ ListRecipients
    \/ \E body \in RecipientBodies : AddRecipients(body)
    \/ RecipientsDbThrows
    \/ \E id \in DeleteIds : DeleteRecipient(id)
    \/ RecipientsMethodNotAllowed

SpecRecipients == InitRecipients /\ [][NextRecipients]_vars

\* ------------------------------------------- missing account configuration

\* The handler in a process whose environment lacks GMAIL_USER,
\* GMAIL_APP_PASSWORD or both.
InitEnv ==
    /\ recipients = InitialRecipients
    /\ InitHandler
    /\ rendering = NoRendering
    /\ adds = 0
    /\ addResponse = {}
    /\ env \in (SUBSET FullEnv) \ {FullEnv}
    /\ socket = NoSockets

\* Every sendGmailMessage call throws in requiredEnv, so that the call never
\* resolves and the try block's delivery.create is never reached.
NextEnv ==
    \/ \E r \in Reqs, req \in LiveInputs : Receive(r, req)
    \/ \E r \in Reqs : FindMany(r)
    \/ \E r \in Reqs : FindManyThrows(r)
    \/ \E r \in Reqs : CreateCampaign(r)
    \/ \E r \in Reqs : CreateCampaignThrows(r)
    \/ \E r \in Reqs, name \in FullEnv : SendRejects(r, MissingEnvError(name))
    \/ \E r \in Reqs : CreateFailed(r)
    \/ \E r \in Reqs : CreateFailedThrows(r)

SpecEnv == InitEnv /\ [][NextEnv]_vars

\* ------------------------------------------------------------------ getSocket

\* An error with a code, as dns and net raise them; the code is "" when the
\* error has none.
CodedError(code, message) == [code |-> code, message |-> message]
MSG_ENOTFOUND == <<"q", "u", "e", "r", "y", "A", " ", "E", "N", "O", "T", "F", "O", "U", "N", "D", " ", "s", "m", "t", "p", ".", "g", "m", "a", "i", "l", ".", "c", "o", "m">>
MSG_NO_IPV4 == <<"C", "o", "u", "l", "d", " ", "n", "o", "t", " ", "r", "e", "s", "o", "l", "v", "e", " ", "I", "P", "v", "4", " ", "f", "o", "r", " ", "s", "m", "t", "p", ".", "g", "m", "a", "i", "l", ".", "c", "o", "m">>
\* The error net raises when the connection fails: connect CODE ip:port
CodeText ==
    [ECONNREFUSED |-> <<"E", "C", "O", "N", "N", "R", "E", "F", "U", "S", "E", "D">>,
     ETIMEDOUT |-> <<"E", "T", "I", "M", "E", "D", "O", "U", "T">>]
ConnectError(code, targetIp, port) ==
    CodedError(code, <<"c", "o", "n", "n", "e", "c", "t", " ">> \o CodeText[code] \o <<" ">>
                     \o targetIp \o <<":">> \o NumberText(port))
\* timeoutError with its code
TimedOut(targetIp, port) == CodedError("ETIMEDOUT", TimeoutError(targetIp, port).message)

\* What dns.resolve4 calls back with: an error, no address, one, two.
ResolveResults ==
    { [error |-> {CodedError("ENOTFOUND", MSG_ENOTFOUND)}, addresses |-> <<>>],
      [error |-> {}, addresses |-> <<>>],
      [error |-> {}, addresses |-> <<IP_ONE>>],
      [error |-> {}, addresses |-> <<IP_ONE, IP_TWO>>] }

\* The options the transport hands to getSocket: the port is the transport's
\* or another one, or is absent.
SocketOptions == { [port |-> {}], [port |-> {SMTP_PORT}], [port |-> {465}] }

\* options.port || 587
PortOf(options) ==
    IF options.port = {} \/ options.port = {0} THEN SMTP_PORT
    ELSE CHOOSE port \in options.port : TRUE

\* callback(error, socketOptions) as the transport sees it.
CallbackOf(error, connection) == [error |-> error, connection |-> connection]

\* Mutant: finish without the settled flag.
finishAlways(attempt, error, connection) ==
    [attempt EXCEPT !.settled = TRUE,
                    !.callbacks = Append(@, CallbackOf(error, connection))]

\* finish(error, socketOptions): the callback is invoked unless settled.
finish(attempt, error, connection) ==
    IF attempt.settled THEN attempt
    ELSE [attempt EXCEPT !.settled = TRUE,
                         !.callbacks = Append(@, CallbackOf(error, connection))]

\* What no action of getSocket touches.
besideSocket == <<recipients, campaigns, deliveries, calls, clock, dbFailures, pc, input,
                  payload, resolved, idx, campaign, results, pending, response, log,
                  content, tempFiles, upload, otherRoutes, env>>

\* The transport calls getSocket, which calls dns.resolve4.  Attempts are
\* numbered in the order they start.
GetSocket(a, options) ==
    /\ socket[a].phase = "idle"
    /\ \A b \in Attempts : b < a => socket[b].phase # "idle"
    /\ socket' = [socket EXCEPT ![a].phase = "resolving", ![a].options = options]
    /\ UNCHANGED besideSocket

\* dns.resolve4 calls back.  An error or an empty list is reported through the
\* callback (the resolution error, or an error of getSocket's own when there
\* is none) and nothing else happens; otherwise a socket is created to
\* addresses[Math.floor(Math.random() * addresses.length)], which is any of the
\* addresses (pick), and to options.port || 587, and the three handlers are
\* registered.
Resolved4(a, result, pick) ==
    /\ socket[a].phase = "resolving"
    /\ IF result.error # {} \/ Len(result.addresses) = 0
       THEN /\ pick = 0
            /\ socket' = [socket EXCEPT
                   ![a].phase = "failed",
                   ![a].addresses = result.addresses,
                   ![a].callbacks = Append(@, CallbackOf(
                       IF result.error # {} THEN result.error
                       ELSE {CodedError("", MSG_NO_IPV4)}, {}))]
       ELSE /\ pick \in 0..(Len(result.addresses) - 1)
            /\ socket' = [socket EXCEPT
                   ![a].phase = "connecting",
                   ![a].addresses = result.addresses,
                   ![a].target = {result.addresses[pick + 1]},
                   ![a].port = {PortOf(socket[a].options)},
                   ![a].opened = @ + 1]
    /\ UNCHANGED besideSocket

\* The socket events.  Each handler is registered with once, so it runs for
\* the first event of its kind only; the events may come in any order.

\* "connect": the timeout is switched off and the socket is handed over.
OnConnect(a) ==
    /\ socket[a].phase = "connecting"
    /\ "connect" \notin socket[a].fired
    /\ socket' = [socket EXCEPT
           ![a] = finish([socket[a] EXCEPT !.fired = @ \cup {"connect"}],
                         {}, socket[a].target)]
    /\ UNCHANGED besideSocket

\* The timeout error of attempt a, which names the address and the port of
\* its socket.
TimedOutOf(a) ==
    TimedOut(CHOOSE targetIp \in socket[a].target : TRUE,
             CHOOSE port \in socket[a].port : TRUE)

\* "timeout": the socket is destroyed with the timeout error, which raises an
\* "error" event later on, and the error is reported.
OnTimeout(a) ==
    /\ socket[a].phase = "connecting"
    /\ "timeout" \notin socket[a].fired
    /\ socket' = [socket EXCEPT
           ![a] = finish([socket[a] EXCEPT !.fired = @ \cup {"timeout"},
                                           !.destroyed = TRUE],
                         {TimedOutOf(a)}, {})]
    /\ UNCHANGED besideSocket

\* "error": of the connection itself, with the code net gives it, or the one
\* socket.destroy(timeoutError) raises.
OnError(a, code) ==
    /\ socket[a].phase = "connecting"
    /\ "error" \notin socket[a].fired
    /\ socket[a].destroyed => code = "ETIMEDOUT"
    /\ socket' = [socket EXCEPT
           ![a] = finish([socket[a] EXCEPT !.fired = @ \cup {"error"},
                                           !.destroyed = TRUE],
                         {IF socket[a].destroyed THEN TimedOutOf(a)
                          ELSE ConnectError(code,
                                            CHOOSE targetIp \in socket[a].target : TRUE,
                                            CHOOSE port \in socket[a].port : TRUE)}, {})]
    /\ UNCHANGED besideSocket

NextSocket ==
    \/ \E a \in Attempts, options \in SocketOptions : GetSocket(a, options)
    \/ \E a \in Attempts, result \in ResolveResults, pick \in {0, 1} : Resolved4(a, result, pick)
    \/ \E a \in Attempts : OnConnect(a)
    \/ \E a \in Attempts : OnTimeout(a)
    \/ \E a \in Attempts, code \in {"ECONNREFUSED", "ETIMEDOUT"} : OnError(a, code)

SpecSocket == Init /\ [][NextSocket]_vars

\* =================================================================== claims

Has(seq, x) == \E i \in 1..Len(seq) : seq[i] = x
Count(seq, x) == Cardinality({i \in 1..Len(seq) : seq[i] = x})
CallsOf(r) == {k \in 1..Len(calls) : calls[k].req = r}
CallsTo(r, rid) == {k \in CallsOf(r) : calls[k].recipientId = rid}
RowsOf(r) == {i \in 1..Len(deliveries) : deliveries[i].campaignId \in campaign[r]}
RowsFor(r, rid) == {i \in RowsOf(r) : deliveries[i].recipientId = rid}
Status(r) == {resp.status : resp \in response[r]}
\* The recipients of invocation r, once findMany has returned them.
Resolved(r) == IF Has(log[r], "findMany") THEN resolved[r] ELSE <<>>

\* C1: every request that resolved N recipients and created a campaign has,
\* when it is over, exactly N Delivery rows of that campaign and a response
\* with sentCount + failedCount = total = N and N entries in results.
C1_ExactlyNDeliveries ==
    \A r \in Reqs :
        (pc[r] = "done" /\ campaign[r] # {}) =>
            /\ Cardinality(RowsOf(r)) = Len(resolved[r])
            /\ response[r] # {}
            /\ \A resp \in response[r] :
                   /\ resp.sentCount + resp.failedCount = resp.total
                   /\ resp.total = Len(resolved[r])
                   /\ Len(resp.results) = Len(resolved[r])

\* C2: when the transport call of a recipient has failed, the request, once
\* over, has a FAILED Delivery row of that recipient, a transport attempt and
\* a Delivery row of every later recipient, and a 200 response.
C2_TransportFailureDoesNotAbort ==
    \A r \in Reqs :
        pc[r] = "done" =>
            \A k \in CallsOf(r) :
                calls[k].state = "err" =>
                    /\ \E i \in RowsFor(r, calls[k].recipientId) :
                           deliveries[i].status = "FAILED"
                    /\ \A j \in (calls[k].idx + 1)..Len(resolved[r]) :
                           /\ CallsTo(r, resolved[r][j].id) # {}
                           /\ RowsFor(r, resolved[r][j].id) # {}
                    /\ Status(r) = {200}

\* No two Delivery rows share their campaign and their recipient.
C3_DeliveryRowsDistinct ==
    \A i, j \in 1..Len(deliveries) :
        (deliveries[i].campaignId = deliveries[j].campaignId
         /\ deliveries[i].recipientId = deliveries[j].recipientId) => i = j
\* No Delivery row is PENDING.
C3_DeliveryRowsTerminal ==
    \A i \in 1..Len(deliveries) : deliveries[i].status \in {"SENT", "FAILED"}
\* A step keeps every stored Delivery row as it is.
C3_DeliveryRowsKept ==
    /\ Len(deliveries') >= Len(deliveries)
    /\ \A i \in 1..Len(deliveries) : deliveries'[i] = deliveries[i]
\* C3: in every reachable state there is at most one Delivery row per
\* (campaign, recipient) and every row is SENT or FAILED, from its insertion
\* on; no step changes or removes a stored row.
C3_OneTerminalDeliveryPerPair ==
    /\ [](C3_DeliveryRowsDistinct /\ C3_DeliveryRowsTerminal)
    /\ [][C3_DeliveryRowsKept]_vars
\* Two campaigns have each a row of the same recipient, one SENT, one FAILED.
C3_Witness ==
    \E i, j \in 1..Len(deliveries) :
        /\ deliveries[i].campaignId # deliveries[j].campaignId
        /\ deliveries[i].recipientId = deliveries[j].recipientId
        /\ deliveries[i].status = "SENT"
        /\ deliveries[j].status = "FAILED"

\* No row of the table that the request names is active.
NoActiveRequested(r) ==
    \A row \in recipients :
        Has(payload[r].recipientIds, row.id) => ~row.active

\* C4: when findMany has returned for a request that names no active
\* recipient, the request is over with 400 "No active recipients selected."
\* and has created no Campaign, no Delivery and made no transport call.
C4_NoActiveRecipients ==
    /\ \A r \in Reqs :
           (Has(log[r], "findMany") /\ NoActiveRequested(r)) =>
               /\ pc[r] = "done"
               /\ \E resp \in response[r] :
                      resp.status = 400 /\ resp.error = {MSG_NO_ACTIVE}
               /\ log[r] = <<"findMany">>
               /\ campaign[r] = {}
               /\ CallsOf(r) = {}
    /\ Len(campaigns) = Cardinality({r \in Reqs : campaign[r] # {}})
    /\ \A i \in 1..Len(deliveries) :
           \E r \in Reqs : deliveries[i].campaignId \in campaign[r]
\* A request naming only an inactive row and an unknown id was answered 400.
C4_Witness ==
    \E r \in Reqs :
        /\ payload[r].recipientIds = <<"z", "a">>
        /\ log[r] = <<"findMany">>
        /\ NoActiveRequested(r)
        /\ Status(r) = {400}

\* Positions of op in the log of invocation r.
At(r, op) == {i \in 1..Len(log[r]) : log[r][i] = op}
\* How often invocation r has awaited prisma.campaign.create.
CampaignCreates(r) ==
    Count(log[r], "campaign.create") + Count(log[r], "campaign.create:throw")

\* C5 as stated: every request whose resolution returned a non-empty set has,
\* when it is over, created exactly one Campaign record; that record was
\* created after resolution and before the first transport attempt.
C5_CampaignPerAcceptedRequest ==
    \A r \in Reqs :
        /\ (pc[r] = "done" /\ Len(Resolved(r)) > 0) =>
               Count(log[r], "campaign.create") = 1
        /\ \A i \in At(r, "send") : \E j \in At(r, "campaign.create") : j < i

\* C5 as amended: a request awaits campaign.create at most once, only right
\* after findMany returned a non-empty set, and exactly once when it is over
\* with such a set; the call creates one Campaign record unless it throws, and
\* then the request is over with 500, no Campaign record and no transport
\* call; every transport attempt comes after the record was created; no two
\* requests share a record and the table holds one row per creating request.
C5_CampaignOncePerRequest ==
    /\ \A r \in Reqs :
           /\ CampaignCreates(r) <= 1
           /\ (pc[r] = "done" /\ Len(Resolved(r)) > 0) => CampaignCreates(r) = 1
           /\ campaign[r] # {} <=> Has(log[r], "campaign.create")
           /\ \A i \in At(r, "campaign.create") \cup At(r, "campaign.create:throw") :
                  i = 2 /\ log[r][1] = "findMany" /\ Len(resolved[r]) > 0
           /\ \A i \in At(r, "send") : \E j \in At(r, "campaign.create") : j < i
           /\ CallsOf(r) # {} => campaign[r] # {}
           /\ Has(log[r], "campaign.create:throw") =>
                  Status(r) = {500} /\ campaign[r] = {} /\ CallsOf(r) = {}
           /\ Status(r) = {200} => campaign[r] # {}
    /\ \A r, q \in Reqs : r # q => campaign[r] \cap campaign[q] = {}
    /\ Len(campaigns) = Cardinality({r \in Reqs : campaign[r] # {}})
\* A request is over with 200 after two transport attempts, and another one
\* is over with 500 because its campaign.create threw.
C5_Witness ==
    \E r, q \in Reqs :
        /\ Status(r) = {200} /\ Cardinality(CallsOf(r)) = 2 /\ campaign[r] # {}
        /\ log[q] = <<"findMany", "campaign.create:throw">>

\* The email of the row with this id.
EmailOf(rid) == {row.email : row \in {x \in recipients : x.id = rid}}

\* C6 as stated: when a request is over, each recipient it resolved has had
\* exactly one transport attempt, addressed to that recipient's own email.
C6_ExactlyOneAttempt ==
    \A r \in Reqs :
        pc[r] = "done" =>
            \A i \in 1..Len(Resolved(r)) :
                /\ Cardinality(CallsTo(r, resolved[r][i].id)) = 1
                /\ \A k \in CallsTo(r, resolved[r][i].id) :
                       calls[k].to = resolved[r][i].email

\* C6 as amended: each resolved recipient has at most one transport attempt
\* (none is repeated after a failure or a success), exactly one when the
\* request is over with 200 and one for every Delivery row and result entry;
\* every attempt is for a resolved recipient and addressed to that
\* recipient's own email only.
C6_AtMostOneAttempt ==
    \A r \in Reqs :
        /\ \A i \in 1..Len(Resolved(r)) :
               /\ Cardinality(CallsTo(r, resolved[r][i].id)) <= 1
               /\ Status(r) = {200} =>
                      Cardinality(CallsTo(r, resolved[r][i].id)) = 1
        /\ \A k \in CallsOf(r) :
               /\ calls[k].idx \in 1..Len(Resolved(r))
               /\ calls[k].recipientId = resolved[r][calls[k].idx].id
               /\ {calls[k].to} = EmailOf(calls[k].recipientId)
               /\ \A j \in CallsOf(r) : calls[j].to = calls[k].to => j = k
        /\ \A i \in RowsOf(r) :
               Cardinality(CallsTo(r, deliveries[i].recipientId)) = 1
        /\ \A i \in 1..Len(results[r]) :
               Cardinality(CallsTo(r, results[r][i].recipientId)) = 1
\* A request is over with 200 after a failed and a successful attempt, one to
\* each of its two recipients.
C6_Witness ==
    \E r \in Reqs :
        /\ Status(r) = {200}
        /\ Len(resolved[r]) = 2
        /\ \E k, j \in CallsOf(r) :
               /\ calls[k].state = "err" /\ calls[j].state = "ok"
               /\ calls[k].to # calls[j].to

\* C7: an invocation has at most one transport call in flight; a call starts
\* only when every earlier call of the invocation has settled, and the calls
\* of an invocation follow the resolved order.
C7_OneCallInFlight ==
    \A r \in Reqs :
        /\ Cardinality({k \in CallsOf(r) : calls[k].state = "inflight"}) <= 1
        /\ \A k, j \in CallsOf(r) :
               j < k => calls[j].state # "inflight" /\ calls[j].idx < calls[k].idx
\* The second call of an invocation is in flight after its first has settled,
\* while a call of the other invocation is in flight too.
C7_Witness ==
    \E r, q \in Reqs :
        /\ r # q
        /\ \E k, j \in CallsOf(r) :
               j < k /\ calls[j].state # "inflight" /\ calls[k].state = "inflight"
        /\ \E k \in CallsOf(q) : calls[k].state = "inflight"

\* The outcome of the transport call for the recipient of invocation r.
Succeeded(r, rid) == \E k \in CallsTo(r, rid) : calls[k].state = "ok"
Threw(r, rid) == \E k \in CallsTo(r, rid) : calls[k].state = "err"

\* C8: a Delivery row and a result entry are SENT exactly when the transport
\* call of that recipient succeeded and FAILED exactly when it threw; the
\* counts of the response are the numbers of successful and failed calls;
\* FAILED entries carry error and no sentAt, SENT ones sentAt and no error.
C8_StatusIsTransportOutcome ==
    \A r \in Reqs :
        /\ \A i \in RowsOf(r) :
               /\ deliveries[i].status = "SENT" <=> Succeeded(r, deliveries[i].recipientId)
               /\ deliveries[i].status = "FAILED" <=> Threw(r, deliveries[i].recipientId)
        /\ \A i \in 1..Len(results[r]) :
               /\ results[r][i].status = "SENT" <=> Succeeded(r, results[r][i].recipientId)
               /\ results[r][i].status = "FAILED" <=> Threw(r, results[r][i].recipientId)
               /\ results[r][i].status = "SENT" =>
                      results[r][i].sentAt # {} /\ results[r][i].error = {}
               /\ results[r][i].status = "FAILED" =>
                      results[r][i].error # {} /\ results[r][i].sentAt = {}
        /\ \A resp \in response[r] :
               resp.status = 200 =>
                   /\ resp.sentCount =
                          Cardinality({k \in CallsOf(r) : calls[k].state = "ok"})
                   /\ resp.failedCount =
                          Cardinality({k \in CallsOf(r) : calls[k].state = "err"})

\* C9: providerMessageId and sentAt are set only on SENT rows, error only on
\* FAILED rows; a stored error is at most 1000 characters long and a prefix of
\* the message the transport call of that recipient threw.
C9_DeliveryFields ==
    \A r \in Reqs :
        \A i \in RowsOf(r) :
            /\ deliveries[i].providerMessageId # {} => deliveries[i].status = "SENT"
            /\ deliveries[i].sentAt # {} => deliveries[i].status = "SENT"
            /\ deliveries[i].error # {} => deliveries[i].status = "FAILED"
            /\ \A e \in deliveries[i].error :
                   /\ Len(e) <= ERROR_SLICE
                   /\ \E k \in CallsTo(r, deliveries[i].recipientId) :
                          \E m \in calls[k].error : IsPrefix(e, m)

\* What C10 calls missing or malformed, read off the request alone.
Malformed(req) ==
    \/ ~req.jsonOk
    \/ req.body.subject.t # "string"
    \/ \A i \in 1..Len(req.body.subject.v) : req.body.subject.v[i] \in Whitespace
    \/ req.body.bodyText.t # "string" /\ req.body.body.t # "string"
    \/ req.body.bodyHtml.t \notin {"string", "undefined"}
    \/ req.body.recipientIds.t # "array"
    \/ req.body.recipientIds.v = <<>>
    \/ Has(req.body.recipientIds.v, "")

\* C10: a request that is not a POST is over with 405 and Allow: POST, a POST
\* with missing or malformed fields is over with 400; neither has looked up a
\* recipient, written a Campaign or a Delivery or called the transport.
C10_RejectedAtTheBoundary ==
    \A r \in Reqs :
        (pc[r] # "idle" /\ (input[r].method # "POST" \/ Malformed(input[r]))) =>
            /\ pc[r] = "done"
            /\ \E resp \in response[r] :
                   /\ input[r].method # "POST" =>
                          resp.status = 405 /\ resp.allow = {"POST"}
                   /\ input[r].method = "POST" => resp.status = 400
                   /\ resp.error # {}
            /\ log[r] = <<>>
            /\ campaign[r] = {}
            /\ CallsOf(r) = {}
            /\ RowsOf(r) = {}
\* A GET with a well-formed body was refused and a POST with recipientIds = []
\* was refused, while the tables still hold what other requests wrote.
C10_Witness ==
    \E r, q \in Reqs :
        /\ input[r].method = "GET" /\ Status(r) = {405}
        /\ input[q].method = "POST" /\ input[q].body.recipientIds = Arr(<<>>)
        /\ Status(q) = {400}

\* Length of s without the white space before its first and after its last
\* character that is not white space.
CoreLen(s) ==
    IF \A i \in 1..Len(s) : s[i] \in Whitespace THEN 0
    ELSE (CHOOSE i \in 1..Len(s) :
              s[i] \notin Whitespace /\ \A j \in (i + 1)..Len(s) : s[j] \in Whitespace)
         - (CHOOSE i \in 1..Len(s) :
                s[i] \notin Whitespace /\ \A j \in 1..(i - 1) : s[j] \in Whitespace)
         + 1

\* The request of invocation r was rejected before any database operation.
RejectedAtOnce(r) ==
    /\ pc[r] = "done"
    /\ Status(r) = {400}
    /\ log[r] = <<>>
    /\ campaigns = <<>> /\ deliveries = <<>>
\* The request of invocation r went on to the recipient lookup.
Accepted(r) == pc[r] = "findMany" \/ log[r] # <<>>

\* C11 as stated: a blank subject or bodyText is rejected before any database
\* write; a subject of 300, a bodyText of 20000 and a bodyHtml of 120000
\* characters are accepted; a subject of 301, a bodyText of 20001 or a bodyHtml
\* of 120001 characters is rejected.
C11_RawLengthLimits ==
    pc[1] # "idle" =>
        LET subject == input[1].body.subject.v
            bodyText == input[1].body.bodyText.v
            html == input[1].body.bodyHtml
        IN /\ (CoreLen(subject) = 0 \/ CoreLen(bodyText) = 0) => RejectedAtOnce(1)
           /\ Len(subject) = SUBJECT_MAX + 1 => RejectedAtOnce(1)
           /\ Len(bodyText) = BODY_TEXT_MAX + 1 => RejectedAtOnce(1)
           /\ (html.t = "string" /\ Len(html.v) = BODY_HTML_MAX + 1) => RejectedAtOnce(1)
           /\ (/\ CoreLen(subject) \in 1..SUBJECT_MAX
               /\ CoreLen(bodyText) \in 1..BODY_TEXT_MAX
               /\ html.t = "string" => Len(html.v) <= BODY_HTML_MAX) => Accepted(1)

\* C11: the limits of subject and bodyText count the text without the white
\* space around it, the limit of bodyHtml counts the text as sent.  A request
\* is rejected before any database operation when the trimmed subject or
\* bodyText is empty or longer than 300 or 20000 characters, or bodyHtml is
\* longer than 120000; every other request of the kind is accepted, a subject
\* of 301 characters that ends in white space included.
C11_TrimmedLengthLimits ==
    pc[1] # "idle" =>
        LET subject == input[1].body.subject.v
            bodyText == input[1].body.bodyText.v
            html == input[1].body.bodyHtml
            within == /\ CoreLen(subject) \in 1..SUBJECT_MAX
                      /\ CoreLen(bodyText) \in 1..BODY_TEXT_MAX
                      /\ html.t = "string" => Len(html.v) <= BODY_HTML_MAX
        IN /\ within => Accepted(1) /\ ~RejectedAtOnce(1)
           /\ ~within => RejectedAtOnce(1)
           /\ Accepted(1) => /\ payload[1].subject = Trim(subject)
                             /\ payload[1].bodyText = Trim(bodyText)

\* A subject of 301 characters whose trimmed text has 300 was accepted and the
\* recipient lookup has run.
C11_Witness ==
    /\ pc[1] = "done" /\ log[1] = <<"findMany">>
    /\ Len(input[1].body.subject.v) = SUBJECT_MAX + 1
    /\ CoreLen(input[1].body.subject.v) = SUBJECT_MAX
    /\ Len(payload[1].subject) = SUBJECT_MAX

\* C12: once the lookup of a request has returned, the resolved recipients are
\* pairwise distinct rows of the Recipient table, each active and each with a
\* requested id, and they are no more than the distinct requested ids; the
\* request for [a, a, b] with a inactive and b active resolves to [b] and, when
\* it has answered 200, has one Delivery row.
C12_ResolvedDistinctRequestedActive ==
    \A r \in Reqs :
        Has(log[r], "findMany") =>
            LET ids == payload[r].recipientIds
                res == resolved[r]
            IN /\ \A i, j \in 1..Len(res) : res[i].id = res[j].id => i = j
               /\ \A i \in 1..Len(res) :
                      /\ res[i] \in recipients
                      /\ res[i].active
                      /\ \E k \in 1..Len(ids) : ids[k] = res[i].id
               /\ Len(res) <= Cardinality({ids[k] : k \in 1..Len(ids)})
               /\ ids = <<"a", "a", "b">> =>
                      /\ Len(res) = 1 /\ res[1].id = "b"
                      /\ Status(r) = {200} => Cardinality(RowsOf(r)) = 1

\* The request for [a, a, b] has answered 200 with one recipient, b.
C12_Witness ==
    \E r \in Reqs :
        /\ payload[r].recipientIds = <<"a", "a", "b">>
        /\ Status(r) = {200}
        /\ Len(resolved[r]) = 1
        /\ \A i \in RowsOf(r) : deliveries[i].recipientId = "b"
        /\ Cardinality(RowsOf(r)) = 1

\* The temporary files of invocation r that are on disk.
TempFilesOf(r) == {f \in tempFiles : f[1] = r}

\* C13: when the handler has answered a multipart request, none of the
\* temporary files the parser wrote for it is on disk, whichever way the
\* request ended.
C13_TempFilesDeleted ==
    \A r \in Reqs :
        (pc[r] = "done" /\ IsMultipart(input[r].contentType)) => TempFilesOf(r) = {}

\* The request of invocation r was answered 400 before any lookup, Campaign
\* write or transport call.
RejectedBeforeLookup(r) ==
    /\ pc[r] = "done"
    /\ Status(r) = {400}
    /\ log[r] = <<>>
    /\ campaign[r] = {}
    /\ CallsOf(r) = {}

\* The position of the first part with the field name of part k.
FirstWithField(parts, k) ==
    CHOOSE i \in 1..k : parts[i].field = parts[k].field
                        /\ \A j \in 1..(i - 1) : parts[j].field # parts[k].field

\* The files of part a come before those of part b in the attachments: the
\* field name of a is an array index and that of b is none or a larger one, or
\* neither is an array index and the name of a occurs first in the upload.
FieldBefore(parts, a, b) ==
    IF IsArrayIndex(parts[a].field)
    THEN \/ ~IsArrayIndex(parts[b].field)
         \/ NumeralLess(parts[a].field, parts[b].field)
    ELSE /\ ~IsArrayIndex(parts[b].field)
         /\ FirstWithField(parts, a) < FirstWithField(parts, b)

\* C14 as stated: a multipart request with more than 10 files or more than
\* 20MB in all is rejected with 400 before any lookup, Campaign write or
\* transport call; one with at most 10 files and at most 20MB in all (and
\* valid fields, received whole) is accepted with one attachment per uploaded
\* file, in upload order.
C14_CountAndTotalLimits ==
    \A r \in Reqs :
        (pc[r] \notin {"idle", "multipart"} /\ IsMultipart(input[r].contentType)) =>
            LET parts == input[r].files
                n == Len(parts)
            IN /\ (n > MAX_ATTACHMENT_COUNT
                   \/ TotalBytes(parts, n) > MAX_ATTACHMENT_TOTAL_BYTES)
                      => RejectedBeforeLookup(r)
               /\ (/\ n <= MAX_ATTACHMENT_COUNT
                   /\ TotalBytes(parts, n) <= MAX_ATTACHMENT_TOTAL_BYTES
                   /\ ~Malformed(input[r])
                   /\ ~input[r].aborted)
                      => /\ Accepted(r)
                         /\ Len(payload[r].attachments) = n
                         /\ \A k \in 1..n :
                                payload[r].attachments[k].content.file = <<r, k>>

\* C14: a multipart request with more than 10 files, with a file of more than
\* 10MB or of no bytes, with more than 20MB in all, cut short, or with fields
\* sendSchema rejects, is answered 400 before any lookup, Campaign write or
\* transport call; so is one of which a temporary file cannot be read, with
\* the message of the file system.  Every other multipart request is
\* accepted with exactly one
\* attachment per uploaded file, of that file's bytes and name; the
\* attachments are grouped by form field name (first the names that are
\* array indices, by ascending index, then the other names in the order they
\* first occur) with the files of one name in upload order, and every
\* transport call of the request carries them.
C14_AttachmentLimits ==
    \A r \in Reqs :
        (pc[r] \notin {"idle", "multipart"} /\ IsMultipart(input[r].contentType)) =>
            LET parts == input[r].files
                n == Len(parts)
                att == payload[r].attachments
                refused ==
                    \/ n > MAX_ATTACHMENT_COUNT
                    \/ TotalBytes(parts, n) > MAX_ATTACHMENT_TOTAL_BYTES
                    \/ \E k \in 1..n : parts[k].size > MAX_ATTACHMENT_FILE_BYTES
                    \/ \E k \in 1..n : parts[k].size = 0
                    \/ input[r].aborted
                    \/ Malformed(input[r])
                unread ==
                    \E code \in ReadErrorCodes, k \in 1..n, resp \in response[r] :
                        resp.error = {ReadError(code, <<r, k>>).message}
            IN /\ refused => RejectedBeforeLookup(r) /\ ~unread
               /\ (~refused /\ unread) => RejectedBeforeLookup(r)
               /\ (~refused /\ ~unread) =>
                      /\ Accepted(r)
                      /\ Len(att) = n
                      /\ \A k \in 1..n : \E i \in 1..n :
                             /\ att[i].content.file = <<r, k>>
                             /\ att[i].content.byteLength = parts[k].size
                             /\ att[i].filename =
                                    (IF parts[k].originalFilename = "" THEN "attachment"
                                     ELSE parts[k].originalFilename)
                      /\ \A i, j \in 1..n :
                             i < j =>
                                 LET a == att[i].content.file[2]
                                     b == att[j].content.file[2]
                                 IN \/ FieldBefore(parts, a, b)
                                    \/ parts[a].field = parts[b].field /\ a < b
                      /\ \A c \in CallsOf(r) : calls[c].attachments = att

\* A request with the files a (field 10), b (field files), c (field 2) and
\* d (field 02) has answered 200 after a transport call with the attachments
\* c, a, b, d, and its temporary files are gone.
C14_Witness ==
    \E r \in Reqs :
        /\ Status(r) = {200}
        /\ Len(input[r].files) = 4
        /\ CallsOf(r) # {}
        /\ \A c \in CallsOf(r) :
               [k \in 1..4 |-> calls[c].attachments[k].filename]
                   = <<"c.txt", "a.txt", "b.txt", "d.txt">>
        /\ TempFilesOf(r) = {}

\* What a token of a template stands for in the text for a recipient: the
\* email for {{email}}, the trimmed name if it is not empty and otherwise the
\* email for {{firstName}} and {{name}}, the token itself for anything else.
ImageOf(token, person) ==
    LET names == {Trim(n) : n \in person.name} \ {<<>>}
    IN IF token = PH_EMAIL THEN person.email
       ELSE IF token \in {PH_FIRSTNAME, PH_NAME}
            THEN (IF names = {} THEN person.email ELSE CHOOSE n \in names : TRUE)
            ELSE token

\* C15: the text renderRecipientTemplate returns for a template and a
\* recipient is the template with every {{email}} replaced by the recipient's
\* email, every {{firstName}} and {{name}} by the trimmed name or else the
\* email, and every other piece (unknown tokens, unmatched braces, plain text)
\* as it was.
C15_PlaceholdersReplacedRestKept ==
    rendering.out # {} =>
        \A person \in rendering.recipient :
            rendering.out =
                {Flatten([k \in 1..Len(rendering.tokens) |->
                             ImageOf(rendering.tokens[k], person)])}

\* Every tag in html is one of the sanitizer's allowed tags.
OnlyAllowedMarkup(html) ==
    \A i \in 1..Len(html) :
        IsTagAt(html, i) => TagName(html, i, TagEnd(html, i)) \in AllowedTags

\* C16: the main-body HTML of every message handed to the transport holds only
\* tags of the sanitizer's allow-list; no <script> tag is in it.
C16_OnlyAllowedMarkupSent ==
    \A k \in 1..Len(calls) : OnlyAllowedMarkup(calls[k].html.main)

\* Every request the handler has received is answered in the end.
EveryRequestAnswered ==
    \A r \in Reqs : (pc[r] # "idle") ~> (pc[r] = "done" /\ response[r] # {})

\* A recipient whose connection timed out has a FAILED Delivery row, and every
\* later recipient of the request has been attempted, once the request is over.
HungRecipientRecorded ==
    \A r \in Reqs :
        pc[r] = "done" =>
            \A k \in CallsOf(r) :
                (\E error \in TimeoutErrors : calls[k].error = {error.message}) =>
                    /\ \E i \in RowsFor(r, calls[k].recipientId) :
                           deliveries[i].status = "FAILED"
                    /\ \A j \in (calls[k].idx + 1)..Len(resolved[r]) :
                           CallsTo(r, resolved[r][j].id) # {}

\* C17: every transport call settles, so every request the handler received
\* is answered in the end; and a recipient whose connection hung is recorded
\* FAILED after the timeout and the loop goes on to the next recipient.
C17_HungConnectionDoesNotStall == EveryRequestAnswered /\ []HungRecipientRecorded

\* The ids of the active recipients a request for ids resolves to.
ActiveIds(ids) ==
    {row.id : row \in {row \in recipients : row.active /\ Has(ids, row.id)}}
\* Both invocations were given accepted requests for the same, non-empty set
\* of active recipients, and both are over.
SameSetTwice ==
    /\ pc[1] = "done" /\ pc[2] = "done"
    /\ Accepted(1) /\ Accepted(2)
    /\ ActiveIds(payload[1].recipientIds) = ActiveIds(payload[2].recipientIds)
    /\ ActiveIds(payload[1].recipientIds) # {}

\* C18 as stated: two requests for the same recipient set, however their steps
\* interleave, create two distinct Campaign rows, every Delivery row refers to
\* the campaign of its request, and each request makes one transport attempt
\* and writes one Delivery row per resolved recipient, so that each recipient
\* is mailed twice.
C18_EachRecipientMailedTwice ==
    SameSetTwice =>
        /\ campaign[1] # {} /\ campaign[2] # {} /\ campaign[1] # campaign[2]
        /\ Len(campaigns) = 2
        /\ \A r \in Reqs : \A rid \in ActiveIds(payload[r].recipientIds) :
               /\ Cardinality(CallsTo(r, rid)) = 1
               /\ Cardinality(RowsFor(r, rid)) = 1
        /\ \A rid \in ActiveIds(payload[1].recipientIds) :
               Cardinality({k \in 1..Len(calls) : calls[k].recipientId = rid}) = 2

\* The requests never share a Campaign row, each attempts and records each of
\* its recipients at most once, and exactly once when it has answered 200.
C18_IndependentRequests ==
    /\ (campaign[1] # {} /\ campaign[2] # {}) => campaign[1] # campaign[2]
    /\ Len(campaigns) = Cardinality({r \in Reqs : campaign[r] # {}})
    /\ \A r \in Reqs : \A c \in campaign[r] : c \in 1..Len(campaigns) /\ campaigns[c].id = c
    /\ \A i \in 1..Len(deliveries) : \E r \in Reqs : deliveries[i].campaignId \in campaign[r]
    /\ \A r \in Reqs : \A i \in 1..Len(Resolved(r)) :
           /\ Cardinality(CallsTo(r, resolved[r][i].id)) <= 1
           /\ Cardinality(RowsFor(r, resolved[r][i].id)) <= 1
           /\ Status(r) = {200} =>
                  /\ Cardinality(CallsTo(r, resolved[r][i].id)) = 1
                  /\ Cardinality(RowsFor(r, resolved[r][i].id)) = 1
    /\ (SameSetTwice /\ Status(1) = {200} /\ Status(2) = {200}) =>
           \A rid \in ActiveIds(payload[1].recipientIds) :
               /\ Cardinality({k \in 1..Len(calls) : calls[k].recipientId = rid}) = 2
               /\ Cardinality({i \in 1..Len(deliveries) :
                                   deliveries[i].recipientId = rid}) = 2
\* The Delivery row a step of invocation r inserts refers to the campaign of r
\* and to the recipient r is at.
C18_RowOfItsWriter ==
    \A r \in Reqs :
        (log'[r] # log[r] /\ Len(deliveries') = Len(deliveries) + 1) =>
            /\ deliveries'[Len(deliveries')].campaignId \in campaign[r]
            /\ deliveries'[Len(deliveries')].recipientId = resolved[r][idx[r]].id
\* C18: two send requests, run one after the other or interleaved, never share
\* a Campaign row: each request that created a campaign has its own; every
\* Delivery row refers to the campaign of the request whose step wrote it; each
\* request makes at most one transport attempt and writes at most one Delivery
\* row per resolved recipient, exactly one of each when it answers 200; two
\* requests for the same recipient set that both answer 200 mail each
\* recipient twice.
C18_TwoRequestsIndependent == []C18_IndependentRequests /\ [][C18_RowOfItsWriter]_vars

\* Two requests for b and c have both answered 200, their transport calls
\* interleaved: two campaigns, four calls, four Delivery rows.
C18_Witness ==
    /\ SameSetTwice
    /\ Status(1) = {200} /\ Status(2) = {200}
    /\ payload[1].recipientIds = <<"b", "c">>
    /\ Len(campaigns) = 2 /\ Len(calls) = 4 /\ Len(deliveries) = 4
    /\ calls[1].req # calls[2].req
    /\ deliveries[1].campaignId # deliveries[2].campaignId

\* A step leaves the Recipient table as it is and every stored Campaign and
\* Delivery row as it is; it may insert rows after them.
C19_FrameStep ==
    /\ recipients' = recipients
    /\ Len(campaigns') >= Len(campaigns)
    /\ \A i \in 1..Len(campaigns) : campaigns'[i] = campaigns[i]
    /\ Len(deliveries') >= Len(deliveries)
    /\ \A i \in 1..Len(deliveries) : deliveries'[i] = deliveries[i]
\* C19: no step of a send request creates, changes or removes a Recipient row
\* or changes or removes a stored Campaign or Delivery row; the only writes are
\* insertions of Campaign and Delivery rows.
C19_LedgerAppendOnlyRecipientsReadOnly == [][C19_FrameStep]_vars

\* Two requests have inserted their campaigns and Delivery rows, the second
\* after the first had written a row; the Recipient table is as it was.
C19_Witness ==
    /\ Len(campaigns) = 2
    /\ Len(deliveries) >= 3
    /\ \E i, j \in 1..Len(deliveries) :
           /\ i < j
           /\ deliveries[i].recipientId = deliveries[j].recipientId
           /\ deliveries[i].campaignId # deliveries[j].campaignId
    /\ recipients = InitialRecipients

\* ---- C20

EqualIgnoringCase(x, y) == toLowerCase(x) = toLowerCase(y)
StoredEmails(table) == {row.email : row \in table}
\* The addresses a bulk-add body asks for, lower-cased.
AskedEmails(body) ==
    {toLowerCase(Trim(body.recipients.v[i].email.v)) : i \in 1..Len(body.recipients.v)}

\* In every state: stored emails are lower-case, no two stored rows have emails
\* equal ignoring case, and no response reports more insertions than requests.
C20_Stored ==
    /\ \A row \in recipients : row.email = toLowerCase(row.email)
    /\ \A one \in recipients, other \in recipients :
           EqualIgnoringCase(one.email, other.email) => one = other
    /\ \A resp \in addResponse : resp.insertedCount <= resp.requestedCount

\* A bulk-add of an accepted body is answered 200; requestedCount is the number
\* of distinct addresses asked for, ignoring case; insertedCount is the number
\* of those not yet stored; afterwards exactly the stored and the asked
\* addresses are stored, and no row that was stored has changed.
C20_AddStep(body) ==
    createRecipientsSchemaOk(body) =>
        \E resp \in addResponse' :
            /\ addResponse' = {resp}
            /\ resp.status = 200
            /\ resp.error = {}
            /\ resp.requestedCount = Cardinality(AskedEmails(body))
            /\ resp.insertedCount = Cardinality(AskedEmails(body) \ StoredEmails(recipients))
            /\ Cardinality(recipients') = Cardinality(recipients) + resp.insertedCount
            /\ StoredEmails(recipients') = StoredEmails(recipients) \cup AskedEmails(body)
            /\ recipients \subseteq recipients'

\* C20: after any sequence of bulk-add requests, no two stored recipients have
\* emails that are equal ignoring case: emails are stored lowercased, entries
\* repeated within one request are collapsed, emails already stored are skipped
\* without an error, and insertedCount never exceeds requestedCount.
C20_CaseInsensitiveUnique ==
    /\ []C20_Stored
    /\ [][\A body \in RecipientBodies : AddRecipients(body) => C20_AddStep(body)]_vars

\* A request naming one address in two spellings, that address being stored
\* already, was answered 200 with one requested and none inserted.
C20_Witness ==
    /\ \E row \in recipients : row.email = Addr(<<"a">>)
    /\ Cardinality(recipients) = 2
    /\ \E resp \in addResponse :
           resp.status = 200 /\ resp.requestedCount = 1 /\ resp.insertedCount = 0

\* ---- C21

\* The last operation invocation r awaited threw past the per-recipient catch.
EscapedBoundary(r) ==
    /\ log[r] # <<>>
    /\ log[r][Len(log[r])] \in {"findMany:throw", "campaign.create:throw",
                                "delivery.create:FAILED:throw"}

\* The response of invocation r, once sent: a 200 lists the resolved recipients
\* one by one, in their order; after an escaped exception it is a 500 with an
\* error message and nothing else.
C21_ResponseShape(r) ==
    \A resp \in response[r] :
        /\ response[r] = {resp}
        /\ pc[r] = "done"
        /\ resp.status = 500 <=> EscapedBoundary(r)
        /\ resp.status = 200 =>
               /\ Len(resp.results) = Len(resolved[r])
               /\ \A i \in 1..Len(resolved[r]) :
                      resp.results[i].recipientId = resolved[r][i].id
               /\ resp.total = Len(resolved[r])
               /\ resp.error = {}
        /\ resp.status = 500 =>
               /\ resp.error # {}
               /\ resp.results = <<>>
               /\ resp.campaignId = {}
               /\ resp.sentCount = 0 /\ resp.failedCount = 0 /\ resp.total = 0

\* C21: every send request produces exactly one response: a request that has
\* arrived is answered, the answer never changes afterwards, a completed batch
\* is answered 200 with one result entry per resolved recipient, and an
\* exception that escapes the per-recipient boundary is answered with a single
\* 500 that carries an error message and no partial results.
C21_ExactlyOneResponse ==
    /\ [](\A r \in Reqs : C21_ResponseShape(r))
    /\ [][\A r \in Reqs : response[r] # {} => response'[r] = response[r]]_vars
    /\ \A r \in Reqs : (pc[r] # "idle") ~> (response[r] # {})

\* One request was answered 500 after it had collected a result, and the
\* other 200 with the results of its two recipients.
C21_Witness ==
    \E r \in Reqs, q \in Reqs :
        /\ results[r] # <<>> /\ Status(r) = {500}
        /\ Status(q) = {200} /\ Len(resolved[q]) = 2
        /\ \A resp \in response[q] : Len(resp.results) = 2

\* ---- C22

\* The Delivery rows of invocation r's campaign, in insertion order.
RowSeqOf(r) == SelectSeq(deliveries, LAMBDA row : row.campaignId \in campaign[r])
\* The transport calls of invocation r, in the order they started.
CallSeqOf(r) == SelectSeq(calls, LAMBDA call : call.req = r)

\* C22: transport attempts and Delivery writes of one request follow the
\* resolved order, which is creation time ascending.  The k-th call goes to the
\* k-th resolved recipient and the k-th row is that recipient's; a row exists
\* only for a settled call, and a call has started only when every earlier
\* recipient has its row, so the recipients with a row are a prefix of the
\* resolved order; results and the response list them in the same order.
C22_ResolvedOrder ==
    \A r \in Reqs :
        LET rows == RowSeqOf(r)
            sent == CallSeqOf(r)
        IN /\ \A i \in 1..Len(resolved[r]), j \in 1..Len(resolved[r]) :
                  i < j => resolved[r][i].createdAt <= resolved[r][j].createdAt
           /\ Len(sent) <= Len(resolved[r])
           /\ \A k \in 1..Len(sent) :
                  sent[k].idx = k /\ sent[k].recipientId = resolved[r][k].id
           /\ Len(rows) <= Len(sent)
           /\ Len(sent) <= Len(rows) + 1
           /\ \A k \in 1..Len(rows) :
                  /\ rows[k].recipientId = resolved[r][k].id
                  /\ sent[k].state # "inflight"
           /\ Len(results[r]) <= Len(rows)
           /\ \A k \in 1..Len(results[r]) :
                  results[r][k].recipientId = resolved[r][k].id
           /\ \A resp \in response[r] : \A k \in 1..Len(resp.results) :
                  resp.results[k].recipientId = resolved[r][k].id

\* A request that named "b" before "c" is over: "c", created first, was mailed
\* and recorded first, "b" second.
C22_Witness ==
    \E r \in Reqs :
        /\ pc[r] = "done" /\ Status(r) = {200}
        /\ payload[r].recipientIds = <<"b", "c">>
        /\ Len(RowSeqOf(r)) = 2
        /\ RowSeqOf(r)[1].recipientId = "c" /\ RowSeqOf(r)[2].recipientId = "b"
        /\ CallSeqOf(r)[1].recipientId = "c" /\ CallSeqOf(r)[2].recipientId = "b"

\* ---- C23

SentWriteThrew == "delivery.create:SENT:throw"
FailedWriteThrew == "delivery.create:FAILED:throw"

\* C23 as stated: a request in which a Delivery write failed ended in a 500
\* with that failure as the last thing it did, so that no later recipient was
\* attempted.
C23_AnyLedgerFailureAborts ==
    \A r \in Reqs :
        (pc[r] = "done" /\ (Has(log[r], SentWriteThrew) \/ Has(log[r], FailedWriteThrew))) =>
            /\ Status(r) = {500}
            /\ log[r][Len(log[r])] \in {SentWriteThrew, FailedWriteThrew}

\* What the handler does on a failed Delivery write (C23, and the defect of
\* C8): the per-recipient try covers the transport call and the write of the
\* SENT row; the write of the FAILED row, in the catch block, is covered by
\* nothing.  A failure of the FAILED write ends the request at once in a 500:
\* the recipient gets no row and the recipients after it no transport attempt.
\* A failure of the SENT write is caught: the catch block runs next and writes
\* a FAILED row for the recipient, and when that write succeeds the loop goes
\* on to the remaining recipients.
C23_OnlyFailedWriteEscapes ==
    \A r \in Reqs :
        /\ Has(log[r], FailedWriteThrew) =>
               /\ log[r][Len(log[r])] = FailedWriteThrew
               /\ pc[r] = "done" /\ Status(r) = {500}
               /\ Len(CallSeqOf(r)) = idx[r]
               /\ Len(RowSeqOf(r)) = idx[r] - 1
        /\ \A i \in 1..Len(log[r]) :
               log[r][i] = SentWriteThrew =>
                   IF i = Len(log[r])
                   THEN pc[r] = "createFailed" /\ response[r] = {}
                   ELSE log[r][i + 1] \in {"delivery.create:FAILED", FailedWriteThrew}
        /\ (pc[r] = "done" /\ Has(log[r], SentWriteThrew) /\ ~Has(log[r], FailedWriteThrew)) =>
               /\ Status(r) = {200}
               /\ Len(CallSeqOf(r)) = Len(resolved[r])
               /\ Len(RowSeqOf(r)) = Len(resolved[r])

\* The SENT write of the first of two recipients threw; the recipient has a
\* FAILED row, the second recipient was attempted and the request ended in 200.
C23_Witness ==
    \E r \in Reqs :
        /\ pc[r] = "done" /\ Status(r) = {200}
        /\ Len(resolved[r]) = 2
        /\ Len(log[r]) >= 5 /\ log[r][5] = SentWriteThrew
        /\ RowSeqOf(r)[1].status = "FAILED"
        /\ CallSeqOf(r)[1].state = "ok"
        /\ Len(CallSeqOf(r)) = 2

\* ---- C24

\* One pass over the template from position i: a placeholder found is replaced
\* by its value as it is, and the value is not looked at again.
RECURSIVE SinglePassFrom(_, _, _)
SinglePassFrom(template, person, i) ==
    IF i > Len(template) THEN <<>>
    ELSE IF \E ph \in {PH_EMAIL, PH_FIRSTNAME, PH_NAME} : MatchAt(template, ph, i)
         THEN LET ph == CHOOSE p \in {PH_EMAIL, PH_FIRSTNAME, PH_NAME} : MatchAt(template, p, i)
              IN ImageOf(ph, person) \o SinglePassFrom(template, person, i + Len(ph))
         ELSE <<template[i]>> \o SinglePassFrom(template, person, i + 1)

\* C24: for every template and recipient, renderRecipientTemplate returns what
\* a single simultaneous pass returns that replaces the three placeholders of
\* the original template; text put in for a placeholder is never itself
\* scanned and replaced.
C24_SingleSimultaneousPass ==
    rendering.out # {} =>
        \A person \in rendering.recipient :
            rendering.out = {SinglePassFrom(rendering.template, person, 1)}

\* ---- C25

\* "{{" or "}}" occurs in text.
HasPlaceholderSyntax(text) ==
    \E i \in 1..(Len(text) - 1) :
        (text[i] = "{" /\ text[i + 1] = "{") \/ (text[i] = "}" /\ text[i + 1] = "}")

\* C25: for every template and every recipient whose email and trimmed name
\* hold neither "{{" nor "}}", rendering the rendered text again for the same
\* recipient returns the rendered text.
C25_RenderIdempotent ==
    rendering.again # {} =>
        \A person \in rendering.recipient :
            (/\ ~HasPlaceholderSyntax(person.email)
             /\ \A n \in person.name : ~HasPlaceholderSyntax(Trim(n)))
                => rendering.again = rendering.out

\* ---- C26

\* What the claim says sanitizeMainBodyHtml returns for the request of
\* invocation r.
MainBodyHtmlOf(r) ==
    LET raw == input[r].body.bodyHtml
        text == Trim(input[r].body.bodyText.v)
    IN IF raw.t = "undefined" \/ Trim(raw.v) = <<>>
       THEN FallbackHtml(text)
       ELSE IF Trim(sanitizeHtml(raw.v)) = <<>>
            THEN FallbackHtml(text)
            ELSE Trim(sanitizeHtml(raw.v))

\* The shared HTML of invocation r is there from the return of the recipient
\* lookup on, before the campaign exists, and every call of the invocation was
\* given the rendering of that one value for its recipient.
C26_SharedHtml(r) ==
    /\ (pc[r] \notin {"idle", "findMany"} /\ Len(resolved[r]) > 0) =>
           content[r].html = MainBodyHtmlOf(r)
    /\ content[r] = NoContent => campaign[r] = {} /\ CallsOf(r) = {}
    /\ \A k \in CallsOf(r) :
           calls[k].html.main =
               Trim(renderRecipientTemplate(MainBodyHtmlOf(r), resolved[r][calls[k].idx]))

\* C26: sanitizeMainBodyHtml returns the escaped plain text with newlines as
\* <br/> when the rich body is absent, blank after trimming, or sanitized to
\* nothing, and the trimmed sanitizer output otherwise; the value is computed
\* once per request, before the campaign is created, never changes afterwards
\* and is the HTML template of every recipient.
C26_SanitizedOnceWithFallback ==
    /\ [](\A r \in Reqs : C26_SharedHtml(r))
    /\ [][\A r \in Reqs : content[r] # NoContent => content'[r] = content[r]]_vars

\* A rich body of nothing but a script element: both recipients were mailed
\* the escaped plain text with its newline as <br/>.
C26_Witness ==
    \E r \in Reqs :
        /\ Len(CallSeqOf(r)) = 2
        /\ input[r].body.bodyHtml = Str(<<"<", "s", "c", "r", "i", "p", "t", ">", "<", "/", "s", "c", "r", "i", "p", "t", ">">>)
        /\ content[r].html = <<"a", "&", "l", "t", ";", "b", "<", "b", "r", "/", ">", "c">>
        /\ \A k \in CallsOf(r) : calls[k].html.main = content[r].html

\* ---- C27

\* The request of invocation r has a blank bodyText and a bodyHtml that is not
\* blank.
BlankTextRichHtml(r) ==
    /\ input[r].method = "POST"
    /\ input[r].body.bodyText.t = "string" /\ Trim(input[r].body.bodyText.v) = <<>>
    /\ input[r].body.bodyHtml.t = "string" /\ Trim(input[r].body.bodyHtml.v) # <<>>

\* C27: a request whose bodyText is blank and whose bodyHtml is not is
\* processed, and the body of its Campaign row, which is the text template, is
\* the plain-text conversion of the sanitized HTML.
C27_PlainTextFromHtml ==
    \A r \in Reqs :
        (pc[r] # "idle" /\ BlankTextRichHtml(r)) =>
            /\ ~RejectedAtOnce(r)
            /\ \A c \in campaign[r] :
                   campaigns[c].body = htmlToPlainText(MainBodyHtmlOf(r))

\* ---- C29

\* C29: when GMAIL_USER or GMAIL_APP_PASSWORD is missing, a request that
\* resolved recipients has, when it is over, its campaign, for every resolved
\* recipient a FAILED Delivery row whose error names the missing variable, no
\* message sent, and a 200 response with failedCount = total.
C29_MissingConfigFailsEveryRecipient ==
    \A r \in Reqs :
        (MissingVariable # {} /\ pc[r] = "done" /\ Len(Resolved(r)) > 0) =>
            /\ campaign[r] # {}
            /\ \A i \in 1..Len(resolved[r]) :
                   \E k \in RowsFor(r, resolved[r][i].id) :
                       /\ deliveries[k].status = "FAILED"
                       /\ \E name \in MissingVariable :
                              deliveries[k].error = {MissingEnvError(name).message}
            /\ \A k \in CallsOf(r) : calls[k].state # "ok"
            /\ \A resp \in response[r] :
                   /\ resp.status = 200
                   /\ resp.failedCount = Len(resolved[r])
                   /\ resp.total = Len(resolved[r])

\* ---- C28

AddressesOf(a) == {socket[a].addresses[i] : i \in 1..Len(socket[a].addresses)}

\* C28: every socket getSocket opens targets an address that IPv4 resolution
\* returned; two attempts with the same resolution result target the same
\* address; when resolution fails or returns no address, the attempt fails
\* with an error and opens no socket.
C28_DeterministicIPv4 ==
    /\ \A a \in Attempts :
           /\ socket[a].opened <= 1
           /\ socket[a].opened = 1 =>
                  /\ socket[a].target # {}
                  /\ socket[a].target \subseteq AddressesOf(a)
           /\ socket[a].phase = "failed" =>
                  /\ socket[a].opened = 0 /\ socket[a].target = {}
                  /\ Len(socket[a].callbacks) = 1
                  /\ socket[a].callbacks[1].error # {}
                  /\ socket[a].callbacks[1].connection = {}
    /\ \A a \in Attempts, b \in Attempts :
           (/\ socket[a].opened = 1 /\ socket[b].opened = 1
            /\ socket[a].addresses = socket[b].addresses)
               => socket[a].target = socket[b].target

\* ---- C30

\* The state of every attempt: the callback has been invoked at most once, and
\* once exactly when the resolution failed or a socket event has arrived.
C30_CallbackCount(a) ==
    /\ Len(socket[a].callbacks) <= 1
    /\ Len(socket[a].callbacks) = 1 <=>
           (socket[a].phase = "failed" \/ socket[a].fired # {})

\* C30: for one connection attempt and every order of the socket's connect,
\* timeout and error events, the completion callback is invoked at most once,
\* and exactly once as soon as one of the events or a resolution failure has
\* occurred; what it reported is never followed by another report, so no
\* error is reported after a success.
C30_CallbackAtMostOnce ==
    /\ [](\A a \in Attempts : C30_CallbackCount(a))
    /\ [][\A a \in Attempts :
              socket[a].callbacks # <<>> => socket'[a].callbacks = socket[a].callbacks]_vars

\* The connection timed out: the handler destroyed the socket and reported
\* the timeout, and the error event the destroyed socket raised reported
\* nothing more.
C30_Witness ==
    \E a \in Attempts :
        /\ socket[a].fired = {"timeout", "error"}
        /\ socket[a].destroyed
        /\ socket[a].callbacks = <<CallbackOf({TimedOutOf(a)}, {})>>

====
